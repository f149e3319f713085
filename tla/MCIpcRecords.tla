---------------------------- MODULE MCIpcRecords ----------------------------
(* Model of IpcRecords for TLC: the usages that a run is about, with bounds for each. *)
EXTENDS IpcRecords

Plain == [reuse |-> FALSE, reexport |-> FALSE, unmap |-> FALSE, twice |-> FALSE,
          access |-> FALSE, fails |-> FALSE, vas |-> 3, handles |-> 7, own |-> 2, imports |-> 1,
          exports |-> 2, events |-> 0]
Small == [Plain EXCEPT !.vas = 2, !.handles = 6]
Tiny  == [Plain EXCEPT !.vas = 2, !.handles = 5, !.exports = 1]

(* An application that keeps what it maps; one that unmaps and releases, with two imports and
   with two exports at one address; one that exports an allocation several times, with and
   without a repeated teardown; a driver that gives out handle values again; calls that fail;
   and the granting of access, and events, with and without unmapping, releasing and
   destroying. *)
Working == {Plain,
            [Tiny EXCEPT !.unmap = TRUE, !.own = 1],
            [Tiny EXCEPT !.unmap = TRUE, !.vas = 1, !.handles = 6, !.own = 1, !.imports = 2,
                         !.exports = 0],
            [Small EXCEPT !.unmap = TRUE, !.handles = 5, !.imports = 0],
            [Small EXCEPT !.reexport = TRUE],
            [Small EXCEPT !.twice = TRUE, !.reexport = TRUE, !.handles = 5],
            [Small EXCEPT !.reuse = TRUE, !.handles = 3, !.imports = 0],
            [Tiny EXCEPT !.reuse = TRUE, !.handles = 3, !.own = 1],
            [Small EXCEPT !.fails = TRUE, !.handles = 4, !.imports = 0],
            [Tiny EXCEPT !.fails = TRUE, !.handles = 4],
            [Tiny EXCEPT !.fails = TRUE, !.access = TRUE, !.vas = 1, !.handles = 3],
            [Tiny EXCEPT !.access = TRUE],
            [Tiny EXCEPT !.access = TRUE, !.unmap = TRUE, !.vas = 1, !.handles = 3],
            [Tiny EXCEPT !.access = TRUE, !.unmap = TRUE, !.vas = 1, !.handles = 4, !.own = 0,
                         !.imports = 2],
            [Tiny EXCEPT !.vas = 1, !.handles = 2, !.events = 2],
            [Tiny EXCEPT !.vas = 1, !.handles = 1, !.events = 2, !.unmap = TRUE]}

Normal == {Small}
=============================================================================
