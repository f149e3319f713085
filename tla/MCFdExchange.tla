---------------------------- MODULE MCFdExchange ----------------------------
EXTENDS FdExchange

(* The handler of the signals stops the server, the adapter by default does not. *)
MCCircumstances == {<<"none", FALSE>>, <<"none", TRUE>>, <<"start", TRUE>>, <<"fd", FALSE>>,
                    <<"pipe", TRUE>>, <<"full", TRUE>>, <<"map", FALSE>>, <<"export", FALSE>>}
=============================================================================
