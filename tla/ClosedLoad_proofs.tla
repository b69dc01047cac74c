------------------------- MODULE ClosedLoad_proofs -------------------------
(***************************************************************************)
(* The reports of the closed-loop generator are complete and its loop is   *)
(* closed, for any numbers of users, any duration and think time, and any  *)
(* times that transfers take.                                              *)
(***************************************************************************)
EXTENDS ClosedLoadProperties, Counting_proofs

USE ClosedLoadAssumption

Places == {"stagger", "loop", "perform", "think", "merge", "ended"}
Live == main \in {"join", "report", "break"}

\* Every variable has its type; there are clients while an experiment runs and
\* until its break is over.
Types ==
  /\ clock \in Nat /\ wake \in Nat /\ N \in Nat /\ end_time \in Nat
  /\ success_cnt \in Nat /\ fail_cnt \in Nat /\ latencies \in Nat
  /\ main \in {"start", "join", "report", "break", "done"}
  /\ IF Live THEN /\ client \in [Clients -> Places] /\ due \in [Clients -> Nat]
                  /\ local \in [Clients -> Nat]
             ELSE DOMAIN client = {}

LEMMA DomainOfClients == ASSUME Types, NEW c \in DOMAIN client PROVE Live /\ c \in Clients
BY DEF Types

LEMMA TypesInit == Init => Types
BY DEF Init, Types, Live

LEMMA TypesNext == Types /\ [Next]_vars => Types'
<1> SUFFICES ASSUME Types, [Next]_vars PROVE Types'
  OBVIOUS
<1>1. CASE UNCHANGED vars
  BY <1>1 DEF vars, Types, Live, Clients
<1>2. ASSUME NEW c \in DOMAIN client, ClientStep(c) PROVE Types'
  <2>1. Live /\ c \in Clients
    BY DomainOfClients
  <2>2. Live' /\ Clients' = Clients
    BY <1>2, <2>1 DEF ClientStep, CurlFails, CurlReady, Requests, Leaves, Succeeds, Fails, Thinks,
                      Merges, ClientMoves, Live, Clients
  <2>3. \A from : \A to \in Places, at \in Nat : ClientMoves(c, from, to, at) =>
          /\ client' \in [Clients -> Places] /\ due' \in [Clients -> Nat]
          /\ UNCHANGED <<clock, main, wake, N, end_time>>
    BY <2>1 DEF ClientMoves, Types
  <2>4. CASE CurlFails(c) \/ CurlReady(c) \/ Requests(c) \/ Leaves(c) \/ Thinks(c)
    <3>1. \A r \in Responses : clock + r \in Nat
      BY DEF Types
    <3>2. clock \in Nat
      BY DEF Types
    <3> QED
      BY <2>1, <2>2, <2>3, <2>4, <3>1, <3>2
         DEF CurlFails, CurlReady, Requests, Leaves, Thinks, Types, Places
  <2>5. CASE Succeeds(c) \/ Fails(c) \/ Merges(c)
    <3>1. clock + THINK_TIME \in Nat /\ clock \in Nat /\ local[c] \in Nat
      BY <2>1 DEF Types
    <3>2. local' \in [Clients -> Nat]
      BY <2>1, <2>5, <3>1 DEF Succeeds, Fails, Merges, Types
    <3>3. success_cnt' \in Nat /\ fail_cnt' \in Nat /\ latencies' \in Nat
      BY <2>5, <3>1 DEF Succeeds, Fails, Merges, Types
    <3>4. /\ client' \in [Clients -> Places] /\ due' \in [Clients -> Nat]
          /\ UNCHANGED <<clock, main, wake, N, end_time>>
      BY <2>3, <2>5, <3>1 DEF Succeeds, Fails, Merges, Places
    <3> QED
      BY <2>1, <2>2, <3>2, <3>3, <3>4 DEF Types
  <2> QED
    BY <1>2, <2>4, <2>5 DEF ClientStep
<1>3. CASE StartExperiment
  <2>1. \A f \in [Clients -> Staggers] : [c \in Clients |-> clock + f[c]] \in [Clients -> Nat]
    <3> TAKE f \in [Clients -> Staggers]
    <3>1. \A s \in Staggers : clock + s \in Nat
      BY DEF Types
    <3>2. \A c \in Clients : clock + f[c] \in Nat
      BY <3>1
    <3> QED
      BY <3>2
  <2>2. /\ Live' /\ Clients' = Clients
        /\ success_cnt' = 0 /\ fail_cnt' = 0 /\ latencies' = 0 /\ main' = "join"
        /\ end_time' \in Nat /\ UNCHANGED <<clock, wake, N>>
    BY <1>3 DEF StartExperiment, Types, Live, Clients
  <2>3. client' \in [Clients -> Places] /\ local' \in [Clients -> Nat]
    BY <1>3 DEF StartExperiment, Places
  <2>4. due' \in [Clients -> Nat]
    BY <1>3, <2>1 DEF StartExperiment
  <2> QED
    BY <2>2, <2>3, <2>4 DEF Types
<1>4. CASE JoinAll \/ Report
  <2>1. CASE JoinAll
    BY <2>1 DEF JoinAll, Types, Live, Clients
  <2>2. CASE Report
    <3>1. clock + BREAK \in Nat
      BY DEF Types
    <3> QED
      BY <2>2, <3>1 DEF Report, Types, Live, Clients
  <2> QED
    BY <1>4, <2>1, <2>2
<1>5. CASE NextExperiment
  BY <1>5 DEF NextExperiment, Types, Live
<1>6. CASE Tick
  BY <1>6 DEF Tick, Types, Live, Clients
<1> QED
  BY <1>1, <1>2, <1>3, <1>4, <1>5, <1>6 DEF Next, MainStep, Finished

-----------------------------------------------------------------------------
(* Reports. *)

Open == {c \in Clients : client[c] # "ended"}

\* Every success is handed over or still with a client that will do so, and a
\* client that ends without a handle has none.
Sums ==
  /\ Live => /\ IsFiniteSet(Pairs(Open, local))
             /\ latencies + Cardinality(Pairs(Open, local)) = success_cnt
             /\ \A c \in Clients : client[c] = "stagger" => local[c] = 0
  /\ main \in {"report", "break"} => Open = {}

\* What every step of a client has in common.
Moved(c) ==
  /\ client' = [client EXCEPT ![c] = client'[c]] /\ due' = [due EXCEPT ![c] = due'[c]]
  /\ due[c] <= clock /\ due'[c] \in Nat
  /\ UNCHANGED <<clock, main, wake, N, end_time>>

LEMMA ClientMoved ==
  ASSUME Types, NEW c \in DOMAIN client, ClientStep(c)
  PROVE  Live /\ c \in Clients /\ c \in Open /\ Moved(c) /\ Live' /\ Clients' = Clients
<1>1. Live /\ c \in Clients
  BY DomainOfClients
<1>2. client \in [Clients -> Places] /\ due \in [Clients -> Nat] /\ clock \in Nat
  BY <1>1 DEF Types
<1>3. \A from, to, at : ClientMoves(c, from, to, at) =>
        /\ client[c] = from /\ due[c] <= clock
        /\ client' = [client EXCEPT ![c] = client'[c]] /\ due' = [due EXCEPT ![c] = due'[c]]
        /\ client'[c] = to /\ due'[c] = at
        /\ UNCHANGED <<clock, main, wake, N, end_time>>
  BY <1>1, <1>2 DEF ClientMoves
<1>4. clock \in Nat /\ clock + THINK_TIME \in Nat /\ \A r \in Responses : clock + r \in Nat
  BY <1>2
<1>5. Moved(c) /\ client[c] # "ended"
  BY <1>2, <1>3, <1>4
     DEF ClientStep, CurlFails, CurlReady, Requests, Leaves, Succeeds, Fails, Thinks, Merges, Moved
<1> QED
  BY <1>1, <1>5 DEF Moved, Open, Live, Clients

LEMMA SumsClient ==
  ASSUME Types, Sums, NEW c \in DOMAIN client, ClientStep(c) PROVE Sums'
<1>1. Live /\ c \in Clients /\ c \in Open /\ Moved(c) /\ Live' /\ Clients' = Clients
  BY ClientMoved
<1>2. main = "join" /\ main' = "join"
  BY <1>1 DEF Sums, Live, Moved
<1>3. /\ client \in [Clients -> Places] /\ local \in [Clients -> Nat]
      /\ latencies \in Nat /\ success_cnt \in Nat
  BY <1>1 DEF Types
<1>4. \A d \in Clients \ {c} : client'[d] = client[d]
  BY <1>1, <1>3 DEF Moved
<1>5. /\ IsFiniteSet(Pairs(Open, local)) /\ latencies + Cardinality(Pairs(Open, local)) = success_cnt
      /\ \A d \in Clients : client[d] = "stagger" => local[d] = 0
  BY <1>1 DEF Sums
<1>6. Open \subseteq Clients /\ \A d \in Open : local[d] \in Nat
  BY <1>3 DEF Open
<1>7. Cardinality(Pairs(Open, local)) \in Nat
  BY <1>5, FS_CardinalityType
<1>8. client'[c] # "ended" => Open' = Open
  BY <1>1, <1>4 DEF Open
<1>9. client'[c] = "ended" => Open' = Open \ {c}
  BY <1>1, <1>4 DEF Open
<1>10. /\ IsFiniteSet(Pairs(Open \ {c}, local))
       /\ Cardinality(Pairs(Open \ {c}, local)) = Cardinality(Pairs(Open, local)) - local[c]
  BY <1>1, <1>5, <1>6, PairsWithout
<1>11. client'[c] # "stagger"
  BY <1>1, <1>3
     DEF ClientStep, CurlFails, CurlReady, Requests, Leaves, Succeeds, Fails, Thinks, Merges,
         ClientMoves, Places
<1>12. SUFFICES /\ IsFiniteSet(Pairs(Open', local'))
                /\ latencies' + Cardinality(Pairs(Open', local')) = success_cnt'
                /\ \A d \in Clients \ {c} : local'[d] = local[d]
  <2> HIDE DEF Pairs
  <2> QED
    BY <1>1, <1>2, <1>4, <1>5, <1>11 DEF Sums
<1>13. CASE CurlReady(c) \/ Requests(c) \/ Leaves(c) \/ Fails(c) \/ Thinks(c)
  <2>1. client'[c] # "ended" /\ UNCHANGED <<success_cnt, latencies, local>>
    BY <1>1, <1>3, <1>13 DEF CurlReady, Requests, Leaves, Fails, Thinks, ClientMoves
  <2> QED
    BY <1>5, <1>8, <2>1
<1>14. CASE CurlFails(c)
  <2>1. client[c] = "stagger" /\ client'[c] = "ended" /\ UNCHANGED <<success_cnt, latencies, local>>
    BY <1>1, <1>3, <1>14 DEF CurlFails, ClientMoves
  <2>2. local[c] = 0
    BY <1>1, <1>5, <2>1
  <2>3. Cardinality(Pairs(Open \ {c}, local)) = Cardinality(Pairs(Open, local))
    BY <1>7, <1>10, <2>2
  <2> QED
    BY <1>5, <1>9, <1>10, <2>1, <2>3
<1>15. CASE Succeeds(c)
  <2>1. /\ client'[c] # "ended" /\ success_cnt' = success_cnt + 1 /\ latencies' = latencies
        /\ local'[c] = local[c] + 1 /\ \A d \in Clients \ {c} : local'[d] = local[d]
    BY <1>1, <1>3, <1>15 DEF Succeeds, ClientMoves
  <2>2. \A d \in Open \ {c} : local'[d] = local[d]
    BY <1>6, <2>1
  <2>3. /\ IsFiniteSet(Pairs(Open, local'))
        /\ Cardinality(Pairs(Open, local')) = Cardinality(Pairs(Open, local)) + 1
    BY <1>1, <1>5, <1>6, <2>1, <2>2, PairsOneMore
  <2> QED
    BY <1>3, <1>5, <1>7, <1>8, <2>1, <2>3
<1>16. CASE Merges(c)
  <2>1. /\ client'[c] = "ended" /\ success_cnt' = success_cnt /\ latencies' = latencies + local[c]
        /\ local' = local /\ local[c] \in Nat
    BY <1>1, <1>3, <1>16 DEF Merges, ClientMoves
  <2> QED
    BY <1>3, <1>5, <1>7, <1>9, <1>10, <2>1
<1> QED
  BY <1>13, <1>14, <1>15, <1>16 DEF ClientStep

LEMMA SumsNext == Types /\ Sums /\ [Next]_vars => Sums'
<1> SUFFICES ASSUME Types, Sums, [Next]_vars PROVE Sums'
  OBVIOUS
<1>1. CASE UNCHANGED vars \/ Tick
  <2>1. UNCHANGED <<main, N, client, local, latencies, success_cnt>>
    BY <1>1 DEF vars, Tick
  <2>2. Live' = Live /\ Clients' = Clients
    BY <2>1 DEF Live, Clients
  <2>3. Open' = Open
    BY <2>1, <2>2 DEF Open
  <2> QED
    BY <2>1, <2>2, <2>3 DEF Sums, Pairs
<1>2. CASE \E c \in DOMAIN client : ClientStep(c)
  BY <1>2, SumsClient
<1>3. CASE StartExperiment
  <2>1. /\ main' = "join" /\ Clients' = Clients /\ success_cnt' = 0 /\ latencies' = 0
        /\ \A c \in Clients : local'[c] = 0
    BY <1>3 DEF StartExperiment, Clients
  <2>2. Open' \subseteq Clients
    BY <2>1 DEF Open
  <2>3. IsFiniteSet(Pairs(Open', local')) /\ Cardinality(Pairs(Open', local')) = 0
    BY <2>1, <2>2, PairsNone
  <2> HIDE DEF Pairs
  <2> QED
    BY <2>1, <2>3 DEF Sums
<1>4. CASE JoinAll \/ Report
  <2>1. /\ UNCHANGED <<N, client, local, latencies, success_cnt>> /\ Live
        /\ main' \in {"report", "break"}
    BY <1>4 DEF JoinAll, Report, Live
  <2>2. Open = {}
    BY <1>4 DEF JoinAll, Report, Open, Sums
  <2>3. Clients' = Clients /\ Live'
    BY <2>1 DEF Clients, Live
  <2>4. Open' = Open
    BY <2>1, <2>3 DEF Open
  <2> QED
    BY <2>1, <2>2, <2>3, <2>4 DEF Sums, Pairs
<1>5. CASE NextExperiment
  <2>1. main' \in {"start", "done"}
    BY <1>5 DEF NextExperiment
  <2> QED
    BY <2>1 DEF Sums, Live
<1> QED
  BY <1>1, <1>2, <1>3, <1>4, <1>5 DEF Next, MainStep, Finished

LEMMA TypesInvariant == Spec => []Types
BY TypesInit, TypesNext, PTL DEF Spec

\* Every report is complete: a latency for each success, and no client left
\* that could change one of them, for any number of users and whichever
\* clients get no handle (client_worker and the joins of main).
THEOREM ReportsComplete == Spec => []ReportConsistent
<1>1. Init => Sums
  BY DEF Init, Sums, Live
<1>2. Types /\ Sums => ReportConsistent
  <2> SUFFICES ASSUME Types, Sums, main = "report" PROVE ReportConsistent
    BY DEF ReportConsistent
  <2>1. Open = {} /\ latencies \in Nat /\ success_cnt \in Nat
    BY DEF Sums, Types
  <2>2. Cardinality(Pairs(Open, local)) = 0
    BY <2>1, PairsNone
  <2>3. latencies + Cardinality(Pairs(Open, local)) = success_cnt
    BY DEF Sums, Live
  <2> QED
    BY <2>1, <2>2, <2>3 DEF ReportConsistent, Open
<1> QED
  BY <1>1, <1>2, SumsNext, TypesInvariant, PTL DEF Spec

-----------------------------------------------------------------------------
(* The loop is closed. *)

LEMMA ProductFits ==
  ASSUME NEW m \in Nat, NEW x \in Nat, NEW t \in Nat \ {0}, m * t <= x
  PROVE  m <= x \div t
<1> DEFINE d == x \div t
<1>1. d \in Nat /\ x < (d + 1) * t
  <2>1. x = t * d + (x % t) /\ x % t < t /\ x % t \in Nat /\ d \in Nat
    OBVIOUS
  <2>2. (d + 1) * t = t * d + t
    BY <2>1
  <2> QED
    BY <2>1, <2>2
<1> HIDE DEF d
<1>2. d < m => (d + 1) * t <= m * t
  BY <1>1
<1>3. m * t \in Nat /\ (d + 1) * t \in Nat
  BY <1>1
<1>4. m <= d
  BY <1>1, <1>2, <1>3
<1> QED
  BY <1>4 DEF d

LEMMA ProductGrows ==
  ASSUME NEW m \in Nat, NEW n \in Nat, NEW k \in Nat, m <= n
  PROVE  m * k <= n * k /\ m * k \in Nat /\ n * k \in Nat
OBVIOUS

LEMMA OneMoreThink ==
  ASSUME NEW m \in Nat
  PROVE  m * THINK_TIME \in Nat /\ (m + 1) * THINK_TIME = m * THINK_TIME + THINK_TIME
OBVIOUS

\* The answers client c has had so far, at least a think time apart from each
\* other, the first after the start, and all asked for before the end.
Paced(c, answers) ==
  /\ answers \in Nat
  /\ answers = 0 \/ (answers - 1) * THINK_TIME <= DURATION - 1
  /\ client[c] = "stagger" => answers = 0
  /\ client[c] = "perform" => answers * THINK_TIME <= DURATION - 1
  /\ client[c] \in {"stagger", "loop", "perform", "think"} =>
       end_time - DURATION + answers * THINK_TIME <= due[c]

\* The counters are the sum of what the clients had.
AllPaced ==
  main = "join" => \E had \in [Clients -> Nat] :
    /\ IsFiniteSet(Pairs(Clients, had))
    /\ success_cnt + fail_cnt = Cardinality(Pairs(Clients, had))
    /\ \A c \in Clients : Paced(c, had[c])

LEMMA PacedStep ==
  ASSUME Types, NEW c \in DOMAIN client, ClientStep(c), NEW m \in Nat, Paced(c, m)
  PROVE  \/ UNCHANGED <<success_cnt, fail_cnt>> /\ Paced(c, m)'
         \/ success_cnt' + fail_cnt' = success_cnt + fail_cnt + 1 /\ Paced(c, m + 1)'
<1>1. Live /\ c \in Clients /\ Moved(c)
  BY ClientMoved
<1>2. /\ client \in [Clients -> Places] /\ due \in [Clients -> Nat]
      /\ clock \in Nat /\ success_cnt \in Nat /\ fail_cnt \in Nat /\ end_time \in Nat
  BY <1>1 DEF Types
<1>3. UNCHANGED <<clock, end_time>> /\ due[c] <= clock /\ due[c] \in Nat
  BY <1>1, <1>2 DEF Moved
<1> DEFINE t == m * THINK_TIME
           u == (m + 1) * THINK_TIME
           v == (m - 1) * THINK_TIME
<1>4. t \in Nat /\ u = t + THINK_TIME /\ (m + 1) - 1 = m /\ m + 1 \in Nat /\ m + 1 # 0
  BY OneMoreThink
<1>5. \A from, to, at : ClientMoves(c, from, to, at) =>
        client[c] = from /\ client'[c] = to /\ due'[c] = at
  BY <1>1, <1>2 DEF ClientMoves
<1>6. /\ m = 0 \/ v <= DURATION - 1
      /\ client[c] = "stagger" => m = 0
      /\ client[c] = "perform" => t <= DURATION - 1
      /\ client[c] \in {"stagger", "loop", "perform", "think"} => end_time - DURATION + t <= due[c]
  BY DEF Paced
<1>7. Paced(c, m)' <=>
        /\ m = 0 \/ v <= DURATION - 1
        /\ client'[c] = "stagger" => m = 0
        /\ client'[c] = "perform" => t <= DURATION - 1
        /\ client'[c] \in {"stagger", "loop", "perform", "think"} =>
             end_time' - DURATION + t <= due'[c]
  BY DEF Paced
<1>8. Paced(c, m + 1)' <=>
        /\ t <= DURATION - 1
        /\ client'[c] # "stagger"
        /\ client'[c] = "perform" => u <= DURATION - 1
        /\ client'[c] \in {"stagger", "loop", "perform", "think"} =>
             end_time' - DURATION + u <= due'[c]
  BY <1>4 DEF Paced
<1> HIDE DEF t, u, v
<1>9. CASE CurlFails(c) \/ Leaves(c) \/ Merges(c)
  <2>1. client'[c] \in {"ended", "merge"} /\ UNCHANGED <<success_cnt, fail_cnt>>
    BY <1>5, <1>9 DEF CurlFails, Leaves, Merges
  <2> QED
    BY <1>6, <1>7, <2>1
<1>10. CASE CurlReady(c) \/ Thinks(c)
  <2>1. /\ client[c] \in {"stagger", "think"} /\ client'[c] = "loop" /\ due'[c] = clock
        /\ UNCHANGED <<success_cnt, fail_cnt>>
    BY <1>5, <1>10 DEF CurlReady, Thinks
  <2> QED
    BY <1>2, <1>3, <1>4, <1>6, <1>7, <2>1
<1>11. CASE Requests(c)
  <2>1. PICK r \in Responses : ClientMoves(c, "loop", "perform", clock + r)
    BY <1>11 DEF Requests
  <2>2. client[c] = "loop" /\ client'[c] = "perform" /\ due'[c] = clock + r
    BY <1>5, <2>1, Zenon
  <2>3. r \in Nat /\ clock < end_time /\ UNCHANGED <<success_cnt, fail_cnt>>
    BY <1>11 DEF Requests
  <2> QED
    BY <1>2, <1>3, <1>4, <1>6, <1>7, <2>2, <2>3
<1>12. CASE Succeeds(c) \/ Fails(c)
  <2>1. /\ client[c] = "perform" /\ client'[c] = "think" /\ due'[c] = clock + THINK_TIME
        /\ success_cnt' + fail_cnt' = success_cnt + fail_cnt + 1
    BY <1>2, <1>5, <1>12 DEF Succeeds, Fails
  <2> QED
    BY <1>2, <1>3, <1>4, <1>6, <1>8, <2>1
<1> QED
  BY <1>9, <1>10, <1>11, <1>12 DEF ClientStep

LEMMA PacedClient ==
  ASSUME Types, AllPaced, main = "join", NEW c \in DOMAIN client, ClientStep(c) PROVE AllPaced'
<1>1. c \in Clients /\ Moved(c) /\ Clients' = Clients
  BY ClientMoved
<1>2. /\ client \in [Clients -> Places] /\ due \in [Clients -> Nat] /\ N \in Nat
      /\ success_cnt \in Nat /\ fail_cnt \in Nat
  BY DEF Types, Live
<1>3. PICK had \in [Clients -> Nat] :
        /\ IsFiniteSet(Pairs(Clients, had))
        /\ success_cnt + fail_cnt = Cardinality(Pairs(Clients, had))
        /\ \A d \in Clients : Paced(d, had[d])
  BY DEF AllPaced
<1>4. \A d \in Clients \ {c} : client'[d] = client[d] /\ due'[d] = due[d]
  BY <1>1, <1>2 DEF Moved
<1>5. end_time' = end_time
  BY <1>1 DEF Moved
<1>6. \A d \in Clients \ {c} : Paced(d, had[d]) => Paced(d, had[d])'
  BY <1>4, <1>5 DEF Paced
<1>7. /\ \A d \in Clients : had[d] \in Nat
      /\ \A d \in Clients \ {c} : Paced(d, had[d])'
      /\ Paced(c, had[c]) /\ had[c] \in Nat
  BY <1>1, <1>3, <1>6
<1>8. CASE UNCHANGED <<success_cnt, fail_cnt>> /\ Paced(c, had[c])'
  <2>1. \A d \in Clients : Paced(d, had[d])'
    BY <1>7, <1>8
  <2> HIDE DEF Pairs
  <2> QED
    BY <1>1, <1>3, <1>8, <2>1 DEF AllPaced
<1>9. CASE success_cnt' + fail_cnt' = success_cnt + fail_cnt + 1 /\ Paced(c, had[c] + 1)'
  <2> DEFINE more == [had EXCEPT ![c] = had[c] + 1]
  <2>1. /\ more \in [Clients -> Nat] /\ more[c] = had[c] + 1
        /\ \A d \in Clients \ {c} : more[d] = had[d]
    BY <1>1, <1>7
  <2> HIDE DEF more
  <2>2. /\ IsFiniteSet(Pairs(Clients, more))
        /\ Cardinality(Pairs(Clients, more)) = Cardinality(Pairs(Clients, had)) + 1
    BY <1>1, <1>3, <1>7, <2>1, PairsOneMore
  <2>3. success_cnt' + fail_cnt' = Cardinality(Pairs(Clients, more))
    BY <1>3, <1>9, <2>2
  <2>4. \A d \in Clients : Paced(d, more[d])'
    BY <1>7, <1>9, <2>1
  <2> QED
    BY <1>1, <2>1, <2>2, <2>3, <2>4 DEF AllPaced
<1> QED
  BY <1>7, <1>8, <1>9, PacedStep

LEMMA PacedNext == Types /\ AllPaced /\ [Next]_vars => AllPaced'
<1> SUFFICES ASSUME Types, AllPaced, [Next]_vars, main' = "join" PROVE AllPaced'
  BY DEF AllPaced
<1>1. CASE UNCHANGED vars \/ Tick
  <2>1. UNCHANGED <<main, N, client, due, end_time, success_cnt, fail_cnt>>
    BY <1>1 DEF vars, Tick
  <2>2. Clients' = Clients
    BY <2>1 DEF Clients
  <2>3. \A c, m : Paced(c, m)' <=> Paced(c, m)
    BY <2>1 DEF Paced
  <2> QED
    BY <2>1, <2>2, <2>3 DEF AllPaced
<1>2. CASE \E c \in DOMAIN client : ClientStep(c)
  <2>1. PICK c \in DOMAIN client : ClientStep(c)
    BY <1>2
  <2>2. main = "join"
    BY <2>1, ClientMoved DEF Moved
  <2> QED
    BY <2>1, <2>2, PacedClient
<1>3. CASE StartExperiment
  <2>1. /\ Clients' = Clients /\ success_cnt' = 0 /\ fail_cnt' = 0 /\ end_time' = clock + DURATION
        /\ clock \in Nat /\ \A c \in Clients : client'[c] = "stagger"
    BY <1>3 DEF StartExperiment, Clients, Types
  <2>2. PICK stagger \in [Clients -> Staggers] : due' = [c \in Clients |-> clock + stagger[c]]
    BY <1>3 DEF StartExperiment
  <2>3. \A c \in Clients : stagger[c] \in Nat /\ due'[c] = clock + stagger[c]
    <3>1. \A s \in Staggers : s \in Nat
      OBVIOUS
    <3>2. \A c \in Clients : stagger[c] \in Staggers
      OBVIOUS
    <3>3. \A c \in Clients : due'[c] = clock + stagger[c]
      BY <2>2, Zenon
    <3> QED
      BY <3>1, <3>2, <3>3
  <2>4. PICK had \in [Clients -> Nat] : \A c \in Clients : had[c] = 0
    <3>1. [c \in Clients |-> 0] \in [Clients -> Nat]
      OBVIOUS
    <3> QED
      BY <3>1
  <2>5. IsFiniteSet(Pairs(Clients, had)) /\ Cardinality(Pairs(Clients, had)) = 0
    BY <2>4, PairsNone
  <2>6. \A c \in Clients : Paced(c, had[c])'
    <3> TAKE c \in Clients
    <3>1. had[c] = 0 /\ 0 * THINK_TIME = 0
      <4>1. had[c] = 0
        BY <2>4
      <4> QED
        BY <4>1
    <3>2. Paced(c, 0)'
      <4>1. client'[c] = "stagger" /\ stagger[c] \in Nat /\ due'[c] = clock + stagger[c]
        BY <2>1, <2>3
      <4> QED
        BY <2>1, <3>1, <4>1 DEF Paced
    <3> QED
      BY <3>1, <3>2
  <2>7. success_cnt' + fail_cnt' = Cardinality(Pairs(Clients, had))
    BY <2>1, <2>5
  <2>8. \E f \in [Clients' -> Nat] :
          /\ IsFiniteSet(Pairs(Clients', f))
          /\ success_cnt' + fail_cnt' = Cardinality(Pairs(Clients', f))
          /\ \A c \in Clients' : Paced(c, f[c])'
    <3>1. had \in [Clients' -> Nat] /\ \A c \in Clients' : Paced(c, had[c])'
      BY <2>1, <2>4, <2>6
    <3>2. /\ IsFiniteSet(Pairs(Clients', had))
          /\ success_cnt' + fail_cnt' = Cardinality(Pairs(Clients', had))
      BY <2>1, <2>5, <2>7
    <3> QED
      BY <3>1, <3>2, Zenon
  <2> QED
    BY <2>8 DEF AllPaced
<1>4. CASE JoinAll \/ Report \/ NextExperiment
  BY <1>4 DEF JoinAll, Report, NextExperiment
<1> QED
  BY <1>1, <1>2, <1>3, <1>4 DEF Next, MainStep, Finished

Most == (DURATION - 1) \div THINK_TIME + 1

LEMMA PacedBound ==
  ASSUME Types, AllPaced, main = "join" PROVE success_cnt + fail_cnt <= N * Most
<1>1. Most \in Nat /\ N \in Nat
  BY DEF Most, Types
<1>2. PICK had \in [Clients -> Nat] :
        /\ success_cnt + fail_cnt = Cardinality(Pairs(Clients, had))
        /\ \A c \in Clients : Paced(c, had[c])
  BY DEF AllPaced
<1>3. \A c \in Clients : had[c] \in Nat /\ had[c] <= Most
  <2> TAKE c \in Clients
  <2>1. had[c] \in Nat /\ (had[c] = 0 \/ (had[c] - 1) * THINK_TIME <= DURATION - 1)
    BY <1>2 DEF Paced
  <2>2. ASSUME had[c] # 0 PROVE had[c] - 1 <= (DURATION - 1) \div THINK_TIME
    <3>1. had[c] - 1 \in Nat /\ DURATION - 1 \in Nat
      BY <2>1, <2>2
    <3> QED
      BY <2>1, <2>2, <3>1, ProductFits
  <2>3. (DURATION - 1) \div THINK_TIME \in Nat
    OBVIOUS
  <2> QED
    BY <2>1, <2>2, <2>3 DEF Most
<1> HIDE DEF Most
<1> QED
  BY <1>1, <1>2, <1>3, PairsBound DEF Clients

\* The loop is closed: whatever the transfers take and however they end, N
\* clients ask at most N times in each think time (the usleep of client_worker,
\* which follows failures too).
THEOREM ClosedLoopBound == Spec => []RequestsBounded
<1> DEFINE Bounded == main # "join" => success_cnt + fail_cnt <= N * Most
<1>1. Most \in Nat
  BY DEF Most
<1> HIDE DEF Most
<1>2. Init => Bounded /\ AllPaced /\ Sums
  <2> SUFFICES ASSUME Init PROVE Bounded /\ AllPaced /\ Sums
    OBVIOUS
  <2>1. N \in Nat /\ success_cnt = 0 /\ fail_cnt = 0 /\ main = "start"
    BY DEF Init
  <2>2. N * Most \in Nat
    BY <1>1, <2>1
  <2> QED
    BY <2>1, <2>2 DEF AllPaced, Sums, Live
<1>3. Types /\ AllPaced /\ Bounded => success_cnt + fail_cnt <= N * Most
  BY PacedBound
<1>4. Types /\ Types' /\ Sums /\ AllPaced /\ Bounded /\ [Next]_vars => Bounded'
  <2> SUFFICES ASSUME Types, Types', Sums, AllPaced, Bounded, [Next]_vars, main' # "join"
               PROVE  success_cnt' + fail_cnt' <= N' * Most
    OBVIOUS
  <2>1. success_cnt + fail_cnt <= N * Most /\ success_cnt \in Nat /\ fail_cnt \in Nat
    BY <1>3 DEF Types
  <2>2. CASE UNCHANGED <<N, success_cnt, fail_cnt>>
    BY <2>1, <2>2
  <2>3. CASE NextExperiment
    <3>1. N \in Nat /\ N' \in Nat /\ N' >= N /\ UNCHANGED <<success_cnt, fail_cnt>>
      BY <2>3 DEF NextExperiment, Types
    <3>2. N * Most <= N' * Most /\ N * Most \in Nat /\ N' * Most \in Nat
      BY <1>1, <3>1, ProductGrows
    <3> QED
      BY <2>1, <3>1, <3>2
  <2>4. CASE \E c \in DOMAIN client : ClientStep(c)
    <3>1. PICK c \in DOMAIN client : ClientStep(c)
      BY <2>4
    <3>2. Live /\ c \in Open /\ main' = main
      BY <3>1, ClientMoved DEF Moved
    <3> QED
      BY <3>2 DEF Sums, Live
  <2> QED
    BY <2>2, <2>3, <2>4
       DEF Next, MainStep, Finished, Tick, JoinAll, Report, StartExperiment, vars
<1>5. Types /\ AllPaced /\ Bounded => RequestsBounded
  BY <1>3 DEF RequestsBounded, Most
<1> HIDE DEF Bounded
<1> QED
  BY <1>2, <1>4, <1>5, PacedNext, SumsNext, TypesInvariant, PTL DEF Spec

-----------------------------------------------------------------------------
(* The end of an experiment. *)

\* The ends of transfers are bounded, so the latest of them exists: of the sets
\* of longer transfers one is minimal.
LEMMA LongestResponse ==
  Max(Responses) \in Nat /\ \A r \in Responses : r \in Nat /\ r <= Max(Responses)
<1> DEFINE Longer(x) == {y \in Responses : y > x}
           All == {Longer(x) : x \in Responses}
<1>1. 0 \in Int /\ TIMEOUT \in Int /\ Responses \in SUBSET (0 .. TIMEOUT) /\ Responses \subseteq Int
  OBVIOUS
<1>2. IsFiniteSet(Responses)
  <2>1. IsFiniteSet(0 .. TIMEOUT)
    BY <1>1, FS_Interval
  <2> QED
    BY <1>1, <2>1, FS_Subset
<1>3. All \subseteq FiniteSubsetsOf(Responses) /\ All # {}
  <2>1. \A x \in Responses : Longer(x) \in SUBSET Responses
    OBVIOUS
  <2>2. \A x \in Responses : IsFiniteSet(Longer(x))
    BY <1>2, <2>1, FS_Subset
  <2> QED
    BY <2>1, <2>2 DEF FiniteSubsetsOf
<1>4. PICK m \in All : \A s \in All : ~(<<s, m>> \in StrictSubsetOrdering(Responses))
  <2> HIDE DEF All
  <2>1. IsWellFoundedOn(StrictSubsetOrdering(Responses), FiniteSubsetsOf(Responses))
    BY FS_StrictSubsetOrderingWellFounded
  <2> QED
    BY <1>3, <2>1, WFMin
<1>5. PICK x \in Responses : m = Longer(x)
  OBVIOUS
<1>6. \A y \in Responses : x >= y
  <2> SUFFICES ASSUME NEW y \in Responses, y > x PROVE FALSE
    BY <1>1
  <2>1. Longer(y) \in All
    OBVIOUS
  <2>2. y \in Longer(x) /\ y \notin Longer(y) /\ Longer(y) \subseteq Longer(x)
    <3>1. x \in Int /\ y \in Int /\ ~(y > y)
      BY <1>1
    <3>2. \A z \in Responses : z > y => z > x
      BY <1>1, <3>1
    <3> QED
      BY <3>1, <3>2
  <2>3. <<Longer(y), m>> \in StrictSubsetOrdering(Responses)
    <3>1. Longer(y) \in SUBSET Responses /\ m \in SUBSET Responses
      BY <1>5
    <3>2. Longer(y) \subseteq m /\ Longer(y) # m
      BY <1>5, <2>2
    <3> HIDE DEF Longer
    <3> QED
      BY <3>1, <3>2 DEF StrictSubsetOrdering
  <2> QED
    BY <1>4, <2>1, <2>3
<1>7. Max(Responses) \in Responses /\ \A y \in Responses : Max(Responses) >= y
  BY <1>6 DEF Max
<1> DEFINE top == Max(Responses)
<1>8. \A y \in Responses : y \in Nat
  OBVIOUS
<1>9. top \in Responses /\ top \in Nat /\ \A y \in Responses : top >= y
  BY <1>7, <1>8
<1> HIDE DEF top
<1>10. \A y \in Responses : y <= top
  BY <1>8, <1>9
<1> QED
  BY <1>8, <1>9, <1>10 DEF top

Latest == end_time + Max(Responses)

\* Whatever a client waits for ends on time: a transfer by the latest time, and
\* anything else by a think time after it.
OnTime ==
  main = "join" =>
    /\ clock < Latest + THINK_TIME
    /\ \A c \in Open : /\ clock <= due[c] /\ due[c] < Latest + THINK_TIME
                       /\ client[c] = "perform" => due[c] < Latest

LEMMA OnTimeClient ==
  ASSUME Types, OnTime, main = "join", NEW c \in DOMAIN client, ClientStep(c) PROVE OnTime'
<1>1. c \in Clients /\ c \in Open /\ Moved(c) /\ Clients' = Clients
  BY ClientMoved
<1>2. /\ client \in [Clients -> Places] /\ due \in [Clients -> Nat] /\ clock \in Nat
      /\ end_time \in Nat
  BY DEF Types, Live
<1> DEFINE M == Max(Responses)
<1>3. M \in Nat /\ \A r \in Responses : r \in Nat /\ r <= M
  BY LongestResponse
<1> HIDE DEF M
<1>4. clock = due[c] /\ clock < Latest + THINK_TIME /\ UNCHANGED <<clock, end_time, main>>
  BY <1>1, <1>2 DEF OnTime, Moved
<1>5. Latest = end_time + M /\ Latest' = Latest /\ Latest \in Nat
  BY <1>2, <1>3, <1>4 DEF Latest, M
<1>6. \A d \in Clients \ {c} : client'[d] = client[d] /\ due'[d] = due[d]
  BY <1>1, <1>2 DEF Moved
<1>7. \A from, to, at : ClientMoves(c, from, to, at) =>
        client[c] = from /\ client'[c] = to /\ due'[c] = at
  BY <1>1, <1>2 DEF ClientMoves
<1>8. /\ clock <= due'[c] /\ due'[c] < Latest + THINK_TIME
      /\ client'[c] = "perform" => due'[c] < Latest
  <2>1. CASE CurlFails(c) \/ CurlReady(c) \/ Leaves(c) \/ Thinks(c) \/ Merges(c)
    <3>1. due'[c] = clock /\ client'[c] # "perform"
      BY <1>7, <2>1 DEF CurlFails, CurlReady, Leaves, Thinks, Merges
    <3> QED
      BY <1>2, <1>4, <3>1
  <2>2. CASE Requests(c)
    <3>1. PICK r \in Responses : ClientMoves(c, "loop", "perform", clock + r)
      BY <2>2 DEF Requests
    <3>2. due'[c] = clock + r
      BY <1>7, <3>1, Zenon
    <3>3. clock < end_time
      BY <2>2 DEF Requests
    <3>4. r \in Nat /\ r <= M
      BY <1>3
    <3>5. clock \in Nat /\ end_time \in Nat /\ M \in Nat
      BY <1>2, <1>3
    <3> QED
      BY <1>5, <3>2, <3>3, <3>4, <3>5
  <2>3. CASE Succeeds(c) \/ Fails(c)
    <3>1. client[c] = "perform" /\ client'[c] = "think" /\ due'[c] = clock + THINK_TIME
      BY <1>7, <2>3 DEF Succeeds, Fails
    <3>2. clock < Latest
      BY <1>1, <1>4, <3>1 DEF OnTime
    <3> QED
      BY <1>2, <1>5, <3>1, <3>2
  <2> QED
    BY <2>1, <2>2, <2>3 DEF ClientStep
<1>9. \A d \in Open' \ {c} : d \in Open \ {c}
  BY <1>1, <1>6 DEF Open
<1>10. \A d \in Open \ {c} : d \in Clients \ {c}
  BY DEF Open
<1>11. ASSUME NEW d \in Open'
       PROVE  /\ clock' <= due'[d] /\ due'[d] < Latest' + THINK_TIME
              /\ client'[d] = "perform" => due'[d] < Latest'
  <2>1. CASE d = c
    BY <1>4, <1>5, <1>8, <2>1
  <2>2. CASE d # c
    <3>1. d \in Open /\ client'[d] = client[d] /\ due'[d] = due[d]
      BY <1>6, <1>9, <1>10, <2>2
    <3> QED
      BY <1>4, <1>5, <3>1 DEF OnTime
  <2> QED
    BY <2>1, <2>2
<1> QED
  BY <1>4, <1>5, <1>11 DEF OnTime

LEMMA OnTimeNext == Types /\ OnTime /\ [Next]_vars => OnTime'
<1> SUFFICES ASSUME Types, OnTime, [Next]_vars, main' = "join" PROVE OnTime'
  BY DEF OnTime
<1> DEFINE M == Max(Responses)
<1>1. M \in Nat
  BY LongestResponse
<1> HIDE DEF M
<1>2. CASE UNCHANGED vars
  <2>1. Open' = Open /\ Latest' = Latest
    BY <1>2 DEF vars, Open, Clients, Latest
  <2> QED
    BY <1>2, <2>1 DEF OnTime, vars
<1>3. CASE \E c \in DOMAIN client : ClientStep(c)
  <2>1. PICK c \in DOMAIN client : ClientStep(c)
    BY <1>3
  <2>2. main = "join"
    BY <2>1, ClientMoved DEF Moved
  <2> QED
    BY <2>1, <2>2, OnTimeClient
<1>4. CASE StartExperiment
  <2>1. /\ clock' = clock /\ end_time' = clock + DURATION /\ clock \in Nat
        /\ Clients' = Clients /\ \A c \in Clients : client'[c] = "stagger"
    BY <1>4 DEF StartExperiment, Types, Clients
  <2>2. PICK stagger \in [Clients -> Staggers] : due' = [c \in Clients |-> clock + stagger[c]]
    BY <1>4 DEF StartExperiment
  <2>3. \A c \in Clients : due'[c] = clock + stagger[c]
    BY <2>2, Zenon
  <2>4. \A c \in Clients : stagger[c] \in Nat /\ stagger[c] < THINK_TIME
    <3>1. \A s \in Staggers : s \in Nat /\ s < THINK_TIME
      OBVIOUS
    <3>2. \A c \in Clients : stagger[c] \in Staggers
      OBVIOUS
    <3> QED
      BY <3>1, <3>2
  <2>5. Latest' = clock + DURATION + M
    BY <2>1 DEF Latest, M
  <2>6. Open' \subseteq Clients
    BY <2>1 DEF Open
  <2>7. clock' < Latest' + THINK_TIME
    BY <1>1, <2>1, <2>5
  <2>8. \A c \in Clients : /\ clock' <= due'[c] /\ due'[c] < Latest' + THINK_TIME
                           /\ client'[c] # "perform"
    BY <1>1, <2>1, <2>3, <2>4, <2>5
  <2> QED
    BY <2>6, <2>7, <2>8 DEF OnTime
<1>5. CASE Tick
  <2>1. /\ main = "join" /\ UNCHANGED <<N, client, due, end_time>> /\ clock' = clock + 1
        /\ \A c \in DOMAIN client : client[c] = "ended" \/ clock < due[c]
        /\ \E c \in Clients : client[c] # "ended"
    BY <1>5 DEF Tick
  <2>2. /\ clock \in Nat /\ DOMAIN client = Clients /\ due \in [Clients -> Nat]
        /\ Latest \in Nat
    BY <1>1, <2>1 DEF Types, Live, Latest, M
  <2>3. Open' = Open /\ Latest' = Latest /\ Open \subseteq Clients /\ Open # {}
    BY <2>1 DEF Open, Clients, Latest
  <2>4. \A c \in Open : clock' <= due[c]
    BY <2>1, <2>2 DEF Open
  <2>5. PICK d \in Open : TRUE
    BY <2>3
  <2>6. clock' <= due[d] /\ due[d] < Latest + THINK_TIME /\ due[d] \in Nat
    BY <2>1, <2>2, <2>3, <2>4 DEF OnTime
  <2>7. clock' < Latest' + THINK_TIME
    BY <2>1, <2>2, <2>3, <2>6
  <2>8. \A c \in Open' : /\ clock' <= due'[c] /\ due'[c] < Latest' + THINK_TIME
                         /\ client'[c] = "perform" => due'[c] < Latest'
    BY <2>1, <2>3, <2>4 DEF OnTime
  <2> QED
    BY <2>7, <2>8 DEF OnTime
<1>6. CASE JoinAll \/ Report \/ NextExperiment
  BY <1>6 DEF JoinAll, Report, NextExperiment
<1> QED
  BY <1>2, <1>3, <1>4, <1>5, <1>6 DEF Next, MainStep, Finished

\* An experiment outlasts its end by less than one transfer and one think time,
\* for any number of clients, any duration and any stagger (the test of the loop
\* of client_worker before each request).
THEOREM OverrunIsShort == Spec => []OverrunBounded
<1>1. Init => OnTime
  BY DEF Init, OnTime
<1>2. Types /\ OnTime => OverrunBounded
  BY DEF OnTime, Latest, OverrunBounded
<1> QED
  BY <1>1, <1>2, OnTimeNext, TypesInvariant, PTL DEF Spec
=============================================================================
