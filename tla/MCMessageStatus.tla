--------------------------- MODULE MCMessageStatus ---------------------------
(***************************************************************************)
(* Four requests on one message: a receiver's update, a deletion by the    *)
(* same receiver, another receiver's update and the author's bulk update.  *)
(***************************************************************************)
EXTENDS MessageStatus, TLC

CONSTANTS u1, u2, author, r1, r2, r3, r4

MCKind == r1 :> "update" @@ r2 :> "delete" @@ r3 :> "update" @@ r4 :> "bulk"
MCBy   == r1 :> u1 @@ r2 :> u1 @@ r3 :> u2 @@ r4 :> author
MCAsks == r1 :> "read" @@ r2 :> Deleted @@ r3 :> "done" @@ r4 :> "read"
MCClasses ==
  [type : {"exclusive", "shared", "broadcast"}, mode : {"push", "pull"}, persist : BOOLEAN]
MCStates == {"unread", "read", "done", Deleted}
\* The requests of the runs that leave some of them out.
Only(f) == [r \in Requests |-> f[r]]
KindOf == Only(MCKind)
ByOf   == Only(MCBy)
AsksOf == Only(MCAsks)

=============================================================================
