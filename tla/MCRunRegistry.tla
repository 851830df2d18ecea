--------------------------- MODULE MCRunRegistry ---------------------------
(* Two runs of earlier days, which shared a --log-file and one of which    *)
(* may have crashed, a run with a buffered log of its own, and the         *)
(* operator, who lists and prunes beside the run's own opportunistic pass. *)
EXTENDS RunRegistry
CONSTANTS operator, shared, own, x, y
MCLogOf == 1 :> shared @@ 2 :> shared @@ 3 :> own
Left(segment, end, file) == [segment |-> segment, end |-> end, entry |-> file]
File(status, pid, at) == [status |-> status, pid |-> pid, since |-> 0, at |-> at]
MCHistory ==
  {1 :> first @@ 2 :> Left(1, "ok", File("ok", y, 1)) :
     first \in {Left(1, None, File("running", x, 0)), Left(0, None, Torn)}}
MCBounds == {[keep |-> 0, since |-> None, bytes |-> None],
             [keep |-> 2, since |-> 1, bytes |-> 3]}
=============================================================================
