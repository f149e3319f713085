----------------------------- MODULE MCMultiCr -----------------------------
(* Models of MultiCr for TLC: the circumstances of the runs. *)
EXTENDS MultiCr

Plain == [action |-> TRUE, buffer_only |-> FALSE, skip_nccl |-> FALSE, failing |-> {},
          dies |-> FALSE, faults |-> {}, aborts |-> 0, quiet |-> FALSE]

(* Any action of cuda-checkpoint may fail, in action mode with and without the IPC
   phases; -b; toggles that do not fail; workers that may die; and a worker where calls
   fail that are only logged. *)
Working == {[Plain EXCEPT !.failing = CudaActions],
            [Plain EXCEPT !.failing = CudaActions, !.skip_nccl = TRUE],
            [Plain EXCEPT !.buffer_only = TRUE],
            [Plain EXCEPT !.action = FALSE],
            [Plain EXCEPT !.failing = CudaActions, !.dies = TRUE],
            [Plain EXCEPT !.faults = {1}],
            [Plain EXCEPT !.faults = {1}, !.skip_nccl = TRUE]}
(* A coordinator that is killed once, and started again when the workers are done. *)
Restarted == Working \cup {[Plain EXCEPT !.aborts = 1, !.quiet = TRUE]}
Normal == {Plain}
=============================================================================
