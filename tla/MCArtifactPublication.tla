----------------------- MODULE MCArtifactPublication -----------------------
(***************************************************************************)
(* An instance of ArtifactPublication: a hook's transcode and a deferred   *)
(* job of one worker, and a call of another process.                       *)
(***************************************************************************)
EXTENDS ArtifactPublication, TLC

CONSTANTS c1, d1, p1

Scene(trouble, deferred, other) ==
    [trouble |-> trouble,
     kind |-> (c1 :> "transcode") @@ (d1 :> deferred) @@ (p1 :> other)]

Scenes ==
    {Scene("thefts", "merge", "publish"), Scene("faults", "merge", "reserve"),
     Scene("broken", "probe", "publish"), Scene("slow", "probe", "reserve"),
     Scene("none", "transcode", "publish")}
=============================================================================
