------------------------------ MODULE Dashboard ------------------------------
(***************************************************************************)
(* The page of internal/server/web/app.js, with the list endpoints it      *)
(* calls.  A refresh, begun by the timer, the button or a new key, sends   *)
(* six requests at once and waits for all of them, or for the first that   *)
(* fails; refreshes overlap.                                               *)
(*                                                                         *)
(* A list endpoint encodes a slice, which without rows is nil and encoded  *)
(* as null (internal/store/store.go, writeJSON of server.go).  What the    *)
(* rows hold is not modelled, only whether there are any.                  *)
(***************************************************************************)
EXTENDS Naturals

CONSTANTS
  Slots,        \* bound: the refreshes that may overlap
  Keys,         \* the keys the user may enter
  Good,         \* those among them that are keys of the workspace
  NoKey         \* no key: localStorage has none

Lists == {"rigs", "agents", "convoys", "hooks", "events", "alerts"}

VARIABLES
  calm,         \* TRUE: requests with a good key succeed
  filled,       \* the lists that have rows in the database
  apiKey,       \* the key of the page
  refreshing,   \* refreshing[s]: the key a refresh uses, and per list what it
                \* has got: "waiting", "rows" or "null"
  shown,        \* the lists whose rows are rendered
  connection,   \* "ok" or "warn"
  modal         \* the dialog that asks for a key is open

vars == <<calm, filled, apiKey, refreshing, shown, connection, modal>>

NotRefreshing == [key |-> NoKey, got |-> [l \in Lists |-> "waiting"]]

\* The page is loaded; its first refresh is begun by Refresh.
Init ==
  /\ calm = FALSE
  /\ filled = {}
  /\ apiKey \in Keys \cup {NoKey}
  /\ refreshing = [s \in Slots |-> NotRefreshing]
  /\ shown = {}
  /\ connection = "warn"
  /\ modal = (apiKey = NoKey)

------------------------------------------------------------------------------
\* The data: agents report, alerts come and go.
Fill ==
  /\ \/ \E l \in Lists : filled' = filled \cup {l}
     \/ filled' = filled \ {"alerts"}
  /\ UNCHANGED <<calm, apiKey, refreshing, shown, connection, modal>>

\* refresh() up to its await: the six requests leave with the same key.
Send(s, k) ==
  IF k = NoKey
  THEN modal' = TRUE /\ UNCHANGED refreshing
  ELSE /\ refreshing' = [refreshing EXCEPT ![s] = [NotRefreshing EXCEPT !.key = k]]
       /\ UNCHANGED modal

Refresh(s) ==
  /\ refreshing[s] = NotRefreshing
  /\ Send(s, apiKey)
  /\ UNCHANGED <<calm, filled, apiKey, shown, connection>>

SaveKey(s, k) ==
  /\ refreshing[s] = NotRefreshing
  /\ apiKey' = k
  /\ Send(s, k)
  /\ UNCHANGED <<calm, filled, shown, connection>>

\* What a list encodes to: its rows, or null.
Encoded(l) == IF l \in filled THEN "rows" ELSE "null"

\* The answer of an endpoint.
Answer(s, l) ==
  /\ refreshing[s].key \in Good
  /\ refreshing[s].got[l] = "waiting"
  /\ refreshing' = [refreshing EXCEPT ![s].got[l] = Encoded(l)]
  /\ UNCHANGED <<calm, filled, apiKey, shown, connection, modal>>

\* catch: of a failed request, or of what rendering throws.
Catch(s) ==
  /\ refreshing' = [refreshing EXCEPT ![s] = NotRefreshing]
  /\ connection' = "warn"
  /\ modal' = TRUE

\* The first request that fails ends the refresh; the others are ignored.
Fail(s) ==
  /\ refreshing[s] # NotRefreshing
  /\ refreshing[s].key \notin Good \/ ~calm
  /\ \E l \in Lists : refreshing[s].got[l] = "waiting"
  /\ Catch(s)
  /\ UNCHANGED <<calm, filled, apiKey, shown>>

Got(s, l, what) == refreshing[s].got[l] = what

Answered(s) == \A l \in Lists : ~Got(s, l, "waiting")

\* setCounts takes the length of five lists before any table is rendered,
\* and null has none; the activity is rendered after the tables.
Counted == Lists \ {"events"}

Render(s) ==
  /\ Answered(s)
  /\ \A l \in Counted : Got(s, l, "rows")
  /\ IF Got(s, "events", "rows")
     THEN /\ shown' = Lists
          /\ connection' = "ok"
          /\ modal' = FALSE
          /\ refreshing' = [refreshing EXCEPT ![s] = NotRefreshing]
     ELSE /\ shown' = shown \cup Counted
          /\ Catch(s)
  /\ UNCHANGED <<calm, filled, apiKey>>

RenderThrows(s) ==
  /\ Answered(s)
  /\ \E l \in Counted : Got(s, l, "null")
  /\ Catch(s)
  /\ UNCHANGED <<calm, filled, apiKey, shown>>

CalmDown ==
  /\ ~calm
  /\ calm' = TRUE
  /\ UNCHANGED <<filled, apiKey, refreshing, shown, connection, modal>>

------------------------------------------------------------------------------
Answers(s) ==
  \/ \E l \in Lists : Answer(s, l)
  \/ Fail(s) \/ Render(s) \/ RenderThrows(s)

Next ==
  \/ Fill \/ CalmDown
  \/ \E s \in Slots : Refresh(s) \/ Answers(s) \/ \E k \in Keys : SaveKey(s, k)

\* The timer goes on for ever, and every request is answered or fails.
FairSpec ==
  /\ Init /\ [][Next]_vars
  /\ \A s \in Slots : WF_vars(Refresh(s)) /\ WF_vars(Answers(s))

------------------------------------------------------------------------------
\* "You should see rigs and agents populate within a minute": once there are
\* rigs and agents, the failures have ceased and the key stays a good one,
\* the page shows them.
Populates ==
  (/\ []<>(calm /\ {"rigs", "agents"} \subseteq filled)
   /\ <>[](apiKey \in Good))
  => <>({"rigs", "agents"} \subseteq shown)

==============================================================================
