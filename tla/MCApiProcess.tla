---------------------------- MODULE MCApiProcess -----------------------------
(***************************************************************************)
(* Instances of ApiProcess for TLC.                                        *)
(***************************************************************************)
EXTENDS ApiProcess, TLC

CONSTANTS r1, r2, e1, e2, s1

\* A batch of two events, and a snapshot.
MCBatch   == (r1 :> <<e1, e2>>) @@ (r2 :> <<s1>>)
MCTableOf == (e1 :> "events") @@ (e2 :> "events") @@ (s1 :> "snapshots")

Keep(e, s) == ("events" :> e) @@ ("snapshots" :> s)

\* A day each; or none, and a number of days too long for a time.Duration.
MCRetentions == {Keep(1, 1), Keep(0, 5)}

==============================================================================
