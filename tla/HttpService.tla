----------------------------- MODULE HttpService -----------------------------
(***************************************************************************)
(* What the HTTP server promises to programs and peers, without threads,   *)
(* locks, loops or gauges.                                                 *)
(*                                                                         *)
(* A server is in service from its listen to its shutdown, and its routing *)
(* table only ever gains keys.  A connection is taken at one instant, at   *)
(* which its server is in service and the table says what will answer it;  *)
(* from the moment it is worked on it is never dropped; its handler runs   *)
(* once; and its one reply is what the request and the handler call for.   *)
(***************************************************************************)
CONSTANTS Conns, Servers, Keys, Handlers, Unreadable, Nobody

VARIABLES
  born, open,      \* servers ever listened, servers in service
  table,           \* the handler each server has for each key
  stage,           \* how far each connection is
  target, request, \* the server it is for and what the peer sent
  plan, ran,       \* the handler that is to answer it, the one that ran
  reply            \* the status code it was answered with, 0 before

servers == <<born, open, table>>
asked   == <<target, request>>
service == <<servers, stage, asked, plan, ran, reply>>

Init ==
  /\ born = {} /\ open = {}
  /\ table = [h \in Servers |-> [k \in Keys |-> Nobody]]
  /\ stage = [c \in Conns |-> "out"]
  /\ target = [c \in Conns |-> 0]
  /\ request = [c \in Conns |-> Nobody]
  /\ plan = [c \in Conns |-> Nobody]
  /\ ran = [c \in Conns |-> Nobody]
  /\ reply = [c \in Conns |-> 0]

Become(c, from, to) ==
  /\ stage[c] = from
  /\ stage' = [stage EXCEPT ![c] = to]

-----------------------------------------------------------------------------
Listen(h) ==
  /\ h \in Servers \ born
  /\ born' = born \cup {h} /\ open' = open \cup {h}
  /\ UNCHANGED <<table, stage, asked, plan, ran, reply>>

\* The first registration of a key stands; later ones change nothing.
Register(h, k, f) ==
  /\ h \in open
  /\ table[h][k] = Nobody
  /\ table' = [table EXCEPT ![h] = [@ EXCEPT ![k] = f]]
  /\ UNCHANGED <<born, open, stage, asked, plan, ran, reply>>

Shutdown(h) ==
  /\ h \in open
  /\ open' = open \ {h}
  /\ UNCHANGED <<born, table, stage, asked, plan, ran, reply>>

-----------------------------------------------------------------------------
Connect(c, h, r) ==
  /\ h \in born
  /\ Become(c, "out", "queued")
  /\ target' = [target EXCEPT ![c] = h]
  /\ request' = [request EXCEPT ![c] = r]
  /\ UNCHANGED <<servers, plan, ran, reply>>

Refuse(c) ==
  /\ target[c] \notin open
  /\ Become(c, "queued", "refused")
  /\ UNCHANGED <<servers, asked, plan, ran, reply>>

Accept(c) ==
  /\ Become(c, "queued", "accepted")
  /\ UNCHANGED <<servers, asked, plan, ran, reply>>

Planned(c) == IF request[c] \in Keys THEN table[target[c]][request[c]] ELSE Nobody

Take(c) ==
  /\ target[c] \in open
  /\ Become(c, "accepted", "taken")
  /\ plan' = [plan EXCEPT ![c] = Planned(c)]
  /\ UNCHANGED <<servers, asked, ran, reply>>

Begin(c) ==
  /\ Become(c, "taken", "working")
  /\ UNCHANGED <<servers, asked, plan, ran, reply>>

\* Its server has left the service, or there is no thread to work on it.
Drop(c) ==
  /\ \/ target[c] \notin open /\ Become(c, "accepted", "dropped")
     \/ Become(c, "taken", "dropped")
  /\ UNCHANGED <<servers, asked, plan, ran, reply>>

Run(c) ==
  /\ stage[c] = "working" /\ ran[c] = Nobody /\ plan[c] # Nobody
  /\ ran' = [ran EXCEPT ![c] = plan[c]]
  /\ UNCHANGED <<servers, stage, asked, plan, reply>>

Codes(r, f) ==
  IF r \notin Keys THEN IF r = "overcap" THEN {413} ELSE {400}
  ELSE IF f = Nobody THEN {404} ELSE {200, 500}

Answer(c) ==
  /\ ran[c] = plan[c]
  /\ Become(c, "working", "answered")
  /\ \E code \in Codes(request[c], ran[c]) : reply' = [reply EXCEPT ![c] = code]
  /\ UNCHANGED <<servers, asked, plan, ran>>

-----------------------------------------------------------------------------
ServerStep ==
  \E h \in Servers : \/ Listen(h) \/ Shutdown(h)
                     \/ \E k \in Keys, f \in Handlers : Register(h, k, f)

ConnStep ==
  \E c \in Conns :
    \/ \E h \in Servers, r \in Keys \cup Unreadable : Connect(c, h, r)
    \/ Refuse(c) \/ Accept(c) \/ Take(c) \/ Begin(c) \/ Drop(c) \/ Run(c) \/ Answer(c)

Next == ServerStep \/ ConnStep

Spec == Init /\ [][Next]_service
=============================================================================
