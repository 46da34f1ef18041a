---------------------------- MODULE MCExecution ----------------------------
(***************************************************************************)
(* Execution for TLC.                                                      *)
(***************************************************************************)
EXTENDS Execution, TLC

\* What a RemoveAll that fails has removed: nothing, the files of one kind, or
\* everything but the directory.  A run works on one clip at a time, so the
\* clips need not be told apart.
SomeRemovals ==
    {f \in [master : BOOLEAN, clips : {{}, Indices}, outs : {{}, Indices}] : f.clips = f.outs}

=============================================================================
