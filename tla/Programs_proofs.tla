-------------------------- MODULE Programs_proofs ---------------------------
(***************************************************************************)
(* Proofs about Programs, for every number of terminals and processes and  *)
(* every set of programs and arguments: the arguments a process finds, and *)
(* which programs execute writes over a kernel stack in use.  And proofs   *)
(* about Lib: what the loops of the library routines compute.              *)
(***************************************************************************)
EXTENDS Programs, FiniteSetTheorems, SequenceTheorems, WellFoundedInduction, TLAPS

-----------------------------------------------------------------------------
(* The processes and their chains, on which the other invariants rest.     *)

Phases == {"free", "user", "waits", "halted", "window", "store", "load"}

\* No process is in two places of the chains.
Distinct ==
    \A t, u \in Terminals : \A i \in DOMAIN chain[t], j \in DOMAIN chain[u] :
        chain[t][i] = chain[u][j] => t = u /\ i = j

\* The processes of the chains are alive, and all but the last wait in execute.
Living == \A t \in Terminals : \A i \in DOMAIN chain[t] : pc[chain[t][i]] # "free"
Waiting == \A t \in Terminals : \A i \in 1 .. Len(chain[t]) - 1 : pc[chain[t][i]] = "waits"

Core ==
    /\ chain \in [Terminals -> Seq(Pids)]
    /\ cpu \in Terminals
    /\ pc \in [Pids -> Phases]
    /\ Distinct
    /\ Living
    /\ Waiting

\* A non-empty set of naturals has a least element.
LEMMA LeastElement ==
    ASSUME NEW T \in SUBSET Nat, T # {}
    PROVE  \E x \in T : \A y \in T : x <= y
<1>1. PICK x \in T : \A y \in T : <<y, x>> \notin OpToRel(<, Nat)
  BY WFMin, NatLessThanWellFounded, Zenon
<1>2. \A y \in T : ~(y < x)
  BY <1>1, Zenon DEF OpToRel
<1> QED BY <1>2

LEMMA PidNumbers == Pids \subseteq Nat /\ IsFiniteSet(Pids) /\ Cardinality(Pids) = MAX_PROCESSES
<1>1. MAX_PROCESSES \in Nat \ {0} /\ MAX_PROCESSES \in Int /\ 1 \in Int
  BY BoundsAssumption
<1>2. IsFiniteSet(1 .. MAX_PROCESSES)
  BY <1>1, FS_Interval
<1>3. Cardinality(1 .. MAX_PROCESSES) = MAX_PROCESSES
  BY <1>1, FS_Interval
<1> QED BY <1>1, <1>2, <1>3 DEF Pids

\* create_new_pcb finds a control block that is not in use when there is one.
LEMMA FreePid ==
    ASSUME NEW used \in SUBSET Pids, used # Pids
    PROVE  LowestFree(used) \in Pids \ used
<1>1. Pids \ used \in SUBSET Nat /\ Pids \ used # {}
  BY PidNumbers
<1>2. \E p \in Pids \ used : \A q \in Pids \ used : p <= q
  BY <1>1, LeastElement
<1> QED BY <1>2 DEF LowestFree

LEMMA SomeFree ==
    ASSUME Cardinality(Alive) < MAX_PROCESSES
    PROVE  LowestFree(Alive) \in Pids /\ LowestFree(Alive) \notin Alive
<1>1. Alive \in SUBSET Pids
  BY DEF Alive
<1>2. Alive # Pids
  BY PidNumbers, BoundsAssumption
<1> QED BY <1>1, <1>2, FreePid

\* The process that has the processor is the last one of its terminal's chain.
LEMMA RunningPid ==
    ASSUME Core, Runs(Running)
    PROVE  /\ chain[cpu] \in Seq(Pids) /\ Len(chain[cpu]) \in Nat \ {0}
           /\ DOMAIN chain[cpu] = 1 .. Len(chain[cpu])
           /\ Len(chain[cpu]) \in DOMAIN chain[cpu]
           /\ Running = chain[cpu][Len(chain[cpu])]
           /\ Running \in Pids /\ Running \in Alive
<1>1. chain[cpu] \in Seq(Pids) /\ chain[cpu] # << >> /\ cpu \in Terminals
  BY DEF Core, Runs
<1>2. Len(chain[cpu]) \in Nat \ {0} /\ DOMAIN chain[cpu] = 1 .. Len(chain[cpu])
  BY <1>1
<1>3. Running = chain[cpu][Len(chain[cpu])]
  BY DEF Running, Last
<1>4. Len(chain[cpu]) \in DOMAIN chain[cpu] /\ Running \in Pids
  BY <1>1, <1>2, <1>3
<1>5. pc[Running] # "free"
  BY <1>1, <1>3, <1>4 DEF Core, Living
<1> QED BY <1>1, <1>2, <1>3, <1>4, <1>5 DEF Alive

-----------------------------------------------------------------------------
(* Steps that keep Core.                                                   *)

LEMMA CoreKept ==
    ASSUME Core, UNCHANGED <<chain, pc>>, cpu' \in Terminals
    PROVE  Core'
BY DEF Core, Distinct, Living, Waiting

\* The running process enters another phase.
LEMMA CorePhase ==
    ASSUME Core, NEW p \in Pids, Runs(p), NEW ph \in Phases \ {"free"},
           pc' = [pc EXCEPT ![p] = ph], UNCHANGED <<chain, cpu>>
    PROVE  Core'
<1>1. p = Running /\ Runs(Running)
  BY DEF Runs
<1>2. /\ Len(chain[cpu]) \in Nat \ {0} /\ DOMAIN chain[cpu] = 1 .. Len(chain[cpu])
      /\ Len(chain[cpu]) \in DOMAIN chain[cpu] /\ p = chain[cpu][Len(chain[cpu])]
  BY <1>1, RunningPid
<1>3. pc' \in [Pids -> Phases] /\ \A q \in Pids : pc'[q] = IF q = p THEN ph ELSE pc[q]
  BY DEF Core
<1>4. Distinct'
  BY DEF Core, Distinct
<1>5. Living'
  <2> SUFFICES ASSUME NEW t \in Terminals, NEW i \in DOMAIN chain[t]
               PROVE  pc'[chain[t][i]] # "free"
    BY DEF Living
  <2>1. chain[t][i] \in Pids /\ pc[chain[t][i]] # "free"
    BY DEF Core, Living
  <2> QED BY <1>3, <2>1
<1>6. Waiting'
  <2> SUFFICES ASSUME NEW t \in Terminals, NEW i \in 1 .. Len(chain[t]) - 1
               PROVE  pc'[chain[t][i]] = "waits"
    BY DEF Waiting
  <2>1. chain[t] \in Seq(Pids)
    BY DEF Core
  <2>2. i \in DOMAIN chain[t] /\ chain[t][i] \in Pids /\ i # Len(chain[t])
    BY <2>1
  <2>3. chain[t][i] # p
    BY <1>2, <2>2 DEF Core, Distinct
  <2>4. pc[chain[t][i]] = "waits"
    BY DEF Core, Waiting
  <2> QED BY <1>3, <2>2, <2>3, <2>4
<1> QED BY <1>3, <1>4, <1>5, <1>6 DEF Core

\* The chain of one terminal is replaced by s, whose processes were its own or are new.
LEMMA CoreChain ==
    ASSUME Core, NEW t \in Terminals, NEW s \in Seq(Pids),
           chain' = [chain EXCEPT ![t] = s], cpu' \in Terminals, pc' \in [Pids -> Phases],
           \A i, j \in DOMAIN s : s[i] = s[j] => i = j,
           \A u \in Terminals \ {t} : \A i \in DOMAIN chain[u] :
               /\ pc'[chain[u][i]] = pc[chain[u][i]]
               /\ \A j \in DOMAIN s : s[j] # chain[u][i],
           \A i \in DOMAIN s : pc'[s[i]] # "free",
           \A i \in 1 .. Len(s) - 1 : pc'[s[i]] = "waits"
    PROVE  Core'
<1>1. chain \in [Terminals -> Seq(Pids)]
  BY DEF Core
<1>2. chain' \in [Terminals -> Seq(Pids)] /\ chain'[t] = s /\ \A u \in Terminals \ {t} : chain'[u] = chain[u]
  BY <1>1
<1>3. Distinct'
  <2> SUFFICES ASSUME NEW u \in Terminals, NEW v \in Terminals,
                      NEW i \in DOMAIN chain'[u], NEW j \in DOMAIN chain'[v], chain'[u][i] = chain'[v][j]
               PROVE  u = v /\ i = j
    BY DEF Distinct
  <2>1. CASE u = t /\ v = t
    BY <1>2, <2>1
  <2>2. CASE u # t /\ v # t
    BY <1>2, <2>2 DEF Core, Distinct
  <2>3. CASE u = t /\ v # t
    BY <1>2, <2>3
  <2>4. CASE u # t /\ v = t
    BY <1>2, <2>4
  <2> QED BY <2>1, <2>2, <2>3, <2>4
<1>4. Living'
  <2> SUFFICES ASSUME NEW u \in Terminals, NEW i \in DOMAIN chain'[u]
               PROVE  pc'[chain'[u][i]] # "free"
    BY DEF Living
  <2>1. CASE u = t
    BY <1>2, <2>1
  <2>2. CASE u # t
    BY <1>2, <2>2 DEF Core, Living
  <2> QED BY <2>1, <2>2
<1>5. Waiting'
  <2> SUFFICES ASSUME NEW u \in Terminals, NEW i \in 1 .. Len(chain'[u]) - 1
               PROVE  pc'[chain'[u][i]] = "waits"
    BY DEF Waiting
  <2>1. CASE u = t
    BY <1>2, <2>1
  <2>2. CASE u # t
    <3>1. chain'[u] = chain[u] /\ chain[u] \in Seq(Pids)
      BY <1>1, <1>2, <2>2
    <3>2. i \in DOMAIN chain[u] /\ i \in 1 .. Len(chain[u]) - 1
      BY <3>1
    <3> QED BY <2>2, <3>1, <3>2 DEF Core, Waiting
  <2> QED BY <2>1, <2>2
<1> QED BY <1>2, <1>3, <1>4, <1>5 DEF Core

\* What execute does to the chains and phases: the caller waits, the new process is last.
LEMMA ExecuteCore ==
    ASSUME Core, NEW p \in Pids, NEW prog, NEW a, Execute(p, prog, a)
    PROVE  /\ Core'
           /\ p = Running /\ p \in Alive /\ pc[p] = "user"
           /\ \E c \in Pids : /\ c \notin Alive /\ c # p /\ c = LowestFree(Alive)
                              /\ pc' = [pc EXCEPT ![p] = "waits", ![c] = "user"]
<1> DEFINE c == LowestFree(Alive)
           s == Append(chain[cpu], c)
           n == Len(chain[cpu])
<1>1. /\ Runs(p) /\ pc[p] = "user" /\ Cardinality(Alive) < MAX_PROCESSES /\ cpu' = cpu
      /\ chain' = [chain EXCEPT ![cpu] = s] /\ pc' = [pc EXCEPT ![p] = "waits", ![c] = "user"]
  BY DEF Execute
<1>2. c \in Pids /\ c \notin Alive
  BY <1>1, SomeFree
<1> HIDE DEF c
<1>3. p = Running /\ Runs(Running)
  BY <1>1 DEF Runs
<1>4. /\ chain[cpu] \in Seq(Pids) /\ n \in Nat \ {0} /\ DOMAIN chain[cpu] = 1 .. n
      /\ p = chain[cpu][n] /\ p \in Alive
  BY <1>3, RunningPid
<1>5. c # p /\ pc \in [Pids -> Phases] /\ cpu \in Terminals
  BY <1>2, <1>4 DEF Core
<1>6. /\ pc' \in [Pids -> Phases] /\ pc'[p] = "waits" /\ pc'[c] = "user"
      /\ \A q \in Pids \ {p, c} : pc'[q] = pc[q]
  BY <1>1, <1>2, <1>5 DEF Phases
<1>7. \A t \in Terminals : \A i \in DOMAIN chain[t] : chain[t][i] \in Pids /\ chain[t][i] # c
  BY <1>2 DEF Core, Living, Alive
<1>8. /\ s \in Seq(Pids) /\ DOMAIN s = 1 .. n + 1 /\ Len(s) = n + 1 /\ s[n + 1] = c
      /\ \A i \in 1 .. n : s[i] = chain[cpu][i]
  BY <1>2, <1>4, AppendProperties
<1> HIDE DEF s
<1>9. \A i, j \in DOMAIN s : s[i] = s[j] => i = j
  <2> SUFFICES ASSUME NEW i \in 1 .. n + 1, NEW j \in 1 .. n + 1, s[i] = s[j]
               PROVE  i = j
    BY <1>8
  <2>1. CASE i \in 1 .. n /\ j \in 1 .. n
    BY <1>4, <1>5, <1>8, <2>1 DEF Core, Distinct
  <2>2. CASE i = n + 1 /\ j \in 1 .. n
    BY <1>4, <1>5, <1>7, <1>8, <2>2
  <2>3. CASE i \in 1 .. n /\ j = n + 1
    BY <1>4, <1>5, <1>7, <1>8, <2>3
  <2>4. CASE i = n + 1 /\ j = n + 1
    BY <2>4
  <2> QED BY <1>4, <2>1, <2>2, <2>3, <2>4
<1>10. \A u \in Terminals \ {cpu} : \A i \in DOMAIN chain[u] :
          /\ pc'[chain[u][i]] = pc[chain[u][i]]
          /\ \A j \in DOMAIN s : s[j] # chain[u][i]
  <2> SUFFICES ASSUME NEW u \in Terminals \ {cpu}, NEW i \in DOMAIN chain[u]
               PROVE  /\ pc'[chain[u][i]] = pc[chain[u][i]]
                      /\ \A j \in DOMAIN s : s[j] # chain[u][i]
    OBVIOUS
  <2>1. \A j \in 1 .. n : chain[cpu][j] # chain[u][i]
    BY <1>4, <1>5 DEF Core, Distinct
  <2>2. chain[u][i] \in Pids \ {p, c}
    BY <1>4, <1>7, <2>1
  <2>3. \A j \in 1 .. n + 1 : s[j] # chain[u][i]
    BY <1>4, <1>8, <2>1, <2>2
  <2> QED BY <1>6, <1>8, <2>2, <2>3
<1>11. \A i \in 1 .. n : pc'[s[i]] = "waits"
  <2> SUFFICES ASSUME NEW i \in 1 .. n
               PROVE  pc'[s[i]] = "waits"
    OBVIOUS
  <2>1. CASE i = n
    BY <1>4, <1>6, <1>8, <2>1
  <2>2. CASE i # n
    <3>1. i \in 1 .. n - 1
      BY <1>4, <2>2
    <3>2. pc[chain[cpu][i]] = "waits"
      BY <1>5, <3>1 DEF Core, Waiting
    <3>3. chain[cpu][i] \in Pids /\ chain[cpu][i] # c
      BY <1>4, <1>5, <1>7
    <3>4. chain[cpu][i] # p
      BY <1>1, <3>2
    <3> QED BY <1>6, <1>8, <3>2, <3>3, <3>4
  <2> QED BY <2>1, <2>2
<1>12. \A i \in DOMAIN s : pc'[s[i]] # "free"
  <2> SUFFICES ASSUME NEW i \in 1 .. n + 1
               PROVE  pc'[s[i]] # "free"
    BY <1>8
  <2>1. CASE i \in 1 .. n
    BY <1>11, <2>1
  <2>2. CASE i = n + 1
    BY <1>6, <1>8, <2>2
  <2> QED BY <1>4, <2>1, <2>2
<1>13. \A i \in 1 .. Len(s) - 1 : pc'[s[i]] = "waits"
  BY <1>4, <1>8, <1>11
<1>14. Core'
  BY <1>1, <1>5, <1>6, <1>8, <1>9, <1>10, <1>12, <1>13, CoreChain
<1> QED BY <1>1, <1>2, <1>3, <1>4, <1>5, <1>14 DEF c

\* terminal_switch starts a shell on a terminal that has none.
LEMMA OpenCore ==
    ASSUME Core, NEW t \in Terminals, OpenTerminal(t)
    PROVE  /\ Core'
           /\ Running \in Pids /\ Running \in Alive
           /\ \E c \in Pids : /\ c \notin Alive /\ c = LowestFree(Alive)
                              /\ pc' = [pc EXCEPT ![c] = "user"]
<1> DEFINE c == LowestFree(Alive)
<1>1. /\ Runs(Running) /\ chain[t] = << >> /\ Cardinality(Alive) < MAX_PROCESSES /\ cpu' = t
      /\ chain' = [chain EXCEPT ![t] = <<c>>] /\ pc' = [pc EXCEPT ![c] = "user"]
  BY DEF OpenTerminal
<1>2. c \in Pids /\ c \notin Alive
  BY <1>1, SomeFree
<1> HIDE DEF c
<1>3. Running \in Pids /\ Running \in Alive
  BY <1>1, RunningPid
<1>4. /\ pc' \in [Pids -> Phases] /\ pc'[c] = "user" /\ \A q \in Pids \ {c} : pc'[q] = pc[q]
  BY <1>1, <1>2 DEF Core, Phases
<1>5. \A u \in Terminals : \A i \in DOMAIN chain[u] : chain[u][i] \in Pids /\ chain[u][i] # c
  BY <1>2 DEF Core, Living, Alive
<1>6. <<c>> \in Seq(Pids) /\ DOMAIN <<c>> = {1} /\ Len(<<c>>) = 1 /\ <<c>>[1] = c
  BY <1>2
<1>7. Core'
  <2> DEFINE s == <<c>>
  <2>1. \A i, j \in DOMAIN s : s[i] = s[j] => i = j
    BY <1>6
  <2>2. \A u \in Terminals \ {t} : \A i \in DOMAIN chain[u] :
          /\ pc'[chain[u][i]] = pc[chain[u][i]]
          /\ \A j \in DOMAIN s : s[j] # chain[u][i]
    BY <1>4, <1>5, <1>6
  <2>3. \A i \in DOMAIN s : pc'[s[i]] # "free"
    BY <1>4, <1>6
  <2>4. \A i \in 1 .. Len(s) - 1 : pc'[s[i]] = "waits"
    BY <1>6
  <2>5. s \in Seq(Pids) /\ chain' = [chain EXCEPT ![t] = s] /\ cpu' \in Terminals
    BY <1>1, <1>6
  <2> HIDE DEF s
  <2> QED BY <1>4, <2>1, <2>2, <2>3, <2>4, <2>5, CoreChain
<1> QED BY <1>1, <1>2, <1>3, <1>7 DEF c

\* halt of a root shell; the new one may get the control block of the old.
LEMMA RootCore ==
    ASSUME Core, NEW p \in Pids, Runs(p), pc[p] = "user", HaltRoot(p)
    PROVE  /\ Core'
           /\ p = Running /\ p \in Alive
           /\ \E c \in Pids :
                /\ c \notin Alive \ {p} /\ c = LowestFree(Alive \ {p})
                /\ pc' = [q \in Pids |-> IF q = c THEN "user" ELSE IF q = p THEN "free" ELSE pc[q]]
<1> DEFINE c == LowestFree(Alive \ {p})
<1>1. /\ Len(chain[cpu]) = 1 /\ cpu' = cpu /\ chain' = [chain EXCEPT ![cpu] = <<c>>]
      /\ pc' = [q \in Pids |-> IF q = c THEN "user" ELSE IF q = p THEN "free" ELSE pc[q]]
  BY DEF HaltRoot
<1>2. p = Running /\ Runs(Running)
  BY DEF Runs
<1>3. chain[cpu] \in Seq(Pids) /\ DOMAIN chain[cpu] = {1} /\ p = chain[cpu][1] /\ p \in Alive
  BY <1>1, <1>2, RunningPid
<1>4. c \in Pids /\ c \notin Alive \ {p}
  <2>1. Alive \ {p} \in SUBSET Pids /\ Alive \ {p} # Pids
    BY DEF Alive
  <2> QED BY <2>1, FreePid
<1> HIDE DEF c
<1>5. pc' \in [Pids -> Phases] /\ pc'[c] = "user" /\ \A q \in Pids \ {c, p} : pc'[q] = pc[q]
  BY <1>1, <1>4 DEF Core, Phases
<1>6. cpu \in Terminals
  BY DEF Core
<1>7. \A u \in Terminals \ {cpu} : \A i \in DOMAIN chain[u] : chain[u][i] \in Pids \ {c, p}
  <2> SUFFICES ASSUME NEW u \in Terminals \ {cpu}, NEW i \in DOMAIN chain[u]
               PROVE  chain[u][i] \in Pids \ {c, p}
    OBVIOUS
  <2>1. chain[u][i] # p
    BY <1>3, <1>6 DEF Core, Distinct
  <2>2. chain[u][i] \in Pids /\ chain[u][i] \in Alive
    BY DEF Core, Living, Alive
  <2> QED BY <1>4, <2>1, <2>2
<1>8. <<c>> \in Seq(Pids) /\ DOMAIN <<c>> = {1} /\ Len(<<c>>) = 1 /\ <<c>>[1] = c
  BY <1>4
<1>9. Core'
  <2> DEFINE s == <<c>>
  <2>1. \A i, j \in DOMAIN s : s[i] = s[j] => i = j
    BY <1>8
  <2>2. \A u \in Terminals \ {cpu} : \A i \in DOMAIN chain[u] :
          /\ pc'[chain[u][i]] = pc[chain[u][i]]
          /\ \A j \in DOMAIN s : s[j] # chain[u][i]
    BY <1>5, <1>7, <1>8
  <2>3. \A i \in DOMAIN s : pc'[s[i]] # "free"
    BY <1>5, <1>8
  <2>4. \A i \in 1 .. Len(s) - 1 : pc'[s[i]] = "waits"
    BY <1>8
  <2>5. s \in Seq(Pids) /\ chain' = [chain EXCEPT ![cpu] = s] /\ cpu' \in Terminals
    BY <1>1, <1>6, <1>8
  <2> HIDE DEF s
  <2> QED BY <1>5, <1>6, <2>1, <2>2, <2>3, <2>4, <2>5, CoreChain
<1> QED BY <1>1, <1>2, <1>3, <1>4, <1>9 DEF c

\* halt of a program with a parent: the parent, which waited, has the processor.
LEMMA ParentCore ==
    ASSUME Core, NEW p \in Pids, Runs(p), pc[p] = "user", NEW status, HaltToParent(p, status)
    PROVE  /\ Core'
           /\ p = Running /\ p \in Alive
           /\ \E parent \in Pids :
                /\ parent = chain[cpu][Len(chain[cpu]) - 1]
                /\ pc[parent] = "waits" /\ parent # p
                /\ pc' = [pc EXCEPT ![p] = "free", ![parent] = "halted"]
<1> DEFINE n == Len(chain[cpu])
           parent == chain[cpu][n - 1]
           s == SubSeq(chain[cpu], 1, n - 1)
<1>1. /\ n > 1 /\ cpu' = cpu /\ chain' = [chain EXCEPT ![cpu] = s]
      /\ pc' = [pc EXCEPT ![p] = "free", ![parent] = "halted"]
  BY DEF HaltToParent, Front
<1>2. p = Running /\ Runs(Running)
  BY DEF Runs
<1>3. /\ chain[cpu] \in Seq(Pids) /\ n \in Nat /\ DOMAIN chain[cpu] = 1 .. n
      /\ p = chain[cpu][n] /\ p \in Alive /\ cpu \in Terminals
  BY <1>2, RunningPid DEF Core
<1>4. n - 1 \in 1 .. n - 1 /\ n - 1 \in DOMAIN chain[cpu]
  BY <1>1, <1>3
<1>5. parent \in Pids /\ pc[parent] = "waits" /\ parent # p
  BY <1>3, <1>4 DEF Core, Waiting
<1>6. /\ pc' \in [Pids -> Phases] /\ pc'[parent] = "halted"
      /\ \A q \in Pids \ {p, parent} : pc'[q] = pc[q]
  BY <1>1, <1>5 DEF Core, Phases
<1>7. s \in Seq(Pids) /\ Len(s) = n - 1 /\ DOMAIN s = 1 .. n - 1 /\ \A i \in 1 .. n - 1 : s[i] = chain[cpu][i]
  <2>1. \A i \in 1 .. n - 1 : chain[cpu][i] \in Pids
    BY <1>3
  <2>2. s \in Seq(Pids) /\ Len(s) = n - 1 /\ \A i \in 1 .. n - 1 : s[i] = chain[cpu][i]
    BY <1>1, <1>3, <2>1, SubSeqProperties
  <2> QED BY <2>2
<1> HIDE DEF s
<1>8. Core'
  <2>1. \A i, j \in DOMAIN s : s[i] = s[j] => i = j
    BY <1>3, <1>7 DEF Core, Distinct
  <2>2. \A u \in Terminals \ {cpu} : \A i \in DOMAIN chain[u] :
          /\ pc'[chain[u][i]] = pc[chain[u][i]]
          /\ \A j \in DOMAIN s : s[j] # chain[u][i]
    <3> SUFFICES ASSUME NEW u \in Terminals \ {cpu}, NEW i \in DOMAIN chain[u]
                 PROVE  /\ pc'[chain[u][i]] = pc[chain[u][i]]
                        /\ \A j \in DOMAIN s : s[j] # chain[u][i]
      OBVIOUS
    <3>1. chain[u][i] \in Pids /\ \A j \in 1 .. n : chain[cpu][j] # chain[u][i]
      BY <1>3 DEF Core, Distinct
    <3>2. chain[u][i] # p /\ chain[u][i] # parent
      BY <1>1, <1>3, <1>4, <3>1
    <3>3. \A j \in 1 .. n - 1 : s[j] # chain[u][i]
      BY <1>3, <1>7, <3>1
    <3> QED BY <1>6, <1>7, <3>1, <3>2, <3>3
  <2>3. \A i \in 1 .. Len(s) - 1 : pc'[s[i]] = "waits"
    <3> SUFFICES ASSUME NEW i \in 1 .. n - 2
                 PROVE  pc'[s[i]] = "waits"
      BY <1>7
    <3>1. /\ i \in 1 .. n - 1 /\ i # n - 1 /\ i # n /\ i \in DOMAIN chain[cpu] /\ n \in DOMAIN chain[cpu]
      BY <1>1, <1>3
    <3>2. pc[chain[cpu][i]] = "waits" /\ chain[cpu][i] \in Pids
      BY <1>3, <3>1 DEF Core, Waiting
    <3>3. chain[cpu][i] # p /\ chain[cpu][i] # parent
      BY <1>3, <1>4, <3>1 DEF Core, Distinct
    <3> QED BY <1>6, <1>7, <3>1, <3>2, <3>3
  <2>4. \A i \in DOMAIN s : pc'[s[i]] # "free"
    <3> SUFFICES ASSUME NEW i \in 1 .. n - 1
                 PROVE  pc'[s[i]] # "free"
      BY <1>7
    <3>1. CASE i = n - 1
      BY <1>6, <1>7, <3>1
    <3>2. CASE i # n - 1
      <4>1. i \in 1 .. Len(s) - 1
        BY <1>3, <1>7, <3>2
      <4> QED BY <2>3, <4>1
    <3> QED BY <3>1, <3>2
  <2> QED BY <1>1, <1>3, <1>6, <1>7, <2>1, <2>2, <2>3, <2>4, CoreChain
<1> QED BY <1>1, <1>2, <1>3, <1>5, <1>8

\* timer_handler finds a terminal that has a process, at the latest the interrupted one.
LEMMA TickCore ==
    ASSUME Core, Tick
    PROVE  cpu' \in Terminals /\ Core' /\ Runs(Running)
<1> DEFINE After(k) == chain[(cpu + k) % NUM_TERMINALS]
           S == {k \in 1 .. NUM_TERMINALS : After(k) # << >>}
           away == CHOOSE k \in 1 .. NUM_TERMINALS :
                     /\ chain[(cpu + k) % NUM_TERMINALS] # << >>
                     /\ \A j \in 1 .. k - 1 : chain[(cpu + j) % NUM_TERMINALS] = << >>
<1>1. /\ Runs(Running) /\ cpu' = (cpu + away) % NUM_TERMINALS /\ UNCHANGED <<chain, pc>>
  BY DEF Tick
<1>2. NUM_TERMINALS \in Nat \ {0} /\ cpu \in 0 .. NUM_TERMINALS - 1
  BY BoundsAssumption DEF Core, Terminals
<1>3. (cpu + NUM_TERMINALS) % NUM_TERMINALS = cpu
  BY <1>2
<1>4. NUM_TERMINALS \in S /\ S \in SUBSET Nat
  BY <1>1, <1>2, <1>3 DEF Runs
<1>5. PICK k \in S : \A j \in S : k <= j
  BY <1>4, LeastElement
<1>6. /\ k \in 1 .. NUM_TERMINALS /\ After(k) # << >> /\ \A j \in 1 .. k - 1 : After(j) = << >>
  BY <1>2, <1>5
<1>7. away \in 1 .. NUM_TERMINALS
  BY <1>6
<1> HIDE DEF away
<1>8. cpu' \in Terminals
  BY <1>1, <1>2, <1>7 DEF Terminals
<1> QED BY <1>1, <1>8, CoreKept

\* Calls and returns of a system call, which move the running process to another phase.
Phase(p) == Call(p) \/ CallReturns(p) \/ Store(p) \/ Load(p)

LEMMA PhaseCore ==
    ASSUME Core, NEW p \in Pids, Phase(p)
    PROVE  Core' /\ Runs(p) /\ p = Running /\ p \in Alive
<1>1. Runs(p) /\ UNCHANGED <<chain, cpu>>
  BY DEF Phase, Call, CallReturns, Store, Load
<1>2. PICK ph \in Phases \ {"free"} : pc' = [pc EXCEPT ![p] = ph]
  BY DEF Phase, Call, CallReturns, Store, Load, Phases
<1>3. p = Running /\ Runs(Running)
  BY <1>1 DEF Runs
<1> QED BY <1>1, <1>2, <1>3, CorePhase, RunningPid

\* A program ends by halt or by an exception that halts it with status 256.
Ends(p, status) == Runs(p) /\ pc[p] = "user" /\ (HaltToParent(p, status) \/ HaltRoot(p))

\* Steps that only touch arguments or the word return_val, or nothing.
Still == UNCHANGED <<chain, cpu, pc>>

\* Every step is of one of these kinds.
LEMMA StepKinds ==
    ASSUME [Next]_vars
    PROVE  \/ \E p \in Pids : Phase(p)
           \/ \E p \in Pids, prog \in Executables, a \in Arguments : Execute(p, prog, a)
           \/ \E p \in Pids, s \in Int : Ends(p, s)
           \/ \E t \in Terminals : OpenTerminal(t)
           \/ Tick
           \/ \E p \in Pids : Refused(p)
           \/ \E p \in Pids, n \in Int : getargs(p, n)
           \/ UNCHANGED <<chain, cpu, pc, restarts, argvars, retvars, stackvars>>
<1>1. CASE Next
  <2>1. ASSUME NEW p \in Pids, Refused(p) \/ Call(p) \/ CallReturns(p) \/ Store(p) \/ Load(p)
        PROVE  Phase(p) \/ Refused(p)
    BY <2>1 DEF Phase
  <2>2. ASSUME NEW p \in Pids, NEW s \in Statuses, Halt(p, s)
        PROVE  s \in Int /\ Ends(p, s)
    BY <2>2, NumbersAssumption DEF Halt, Ends
  <2>3. ASSUME NEW p \in Pids, NEW v \in Vectors, Exception(p, v)
        PROVE  \/ Ends(p, 256)
               \/ UNCHANGED <<chain, cpu, pc, restarts, argvars, retvars, stackvars>>
    BY <2>3 DEF Exception, Halt, Ends
  <2>4. ASSUME NEW n \in BufferSizes
        PROVE  n \in Int
    BY NumbersAssumption
  <2>5. CASE Stopped
    BY <2>5 DEF Stopped, vars
  <2>6. 256 \in Int
    OBVIOUS
  <2> QED BY <1>1, <2>1, <2>2, <2>3, <2>4, <2>5, <2>6, Zenon DEF Next
<1>2. CASE UNCHANGED vars
  BY <1>2 DEF vars
<1> QED BY <1>1, <1>2

LEMMA CoreStep ==
    ASSUME Core, [Next]_vars
    PROVE  Core'
<1>1. ASSUME NEW p \in Pids, Phase(p) PROVE Core'
  BY <1>1, PhaseCore
<1>2. ASSUME NEW p \in Pids, NEW prog \in Executables, NEW a \in Arguments, Execute(p, prog, a) PROVE Core'
  BY <1>2, ExecuteCore
<1>3. ASSUME NEW p \in Pids, NEW s \in Int, Ends(p, s) PROVE Core'
  <2>1. CASE HaltToParent(p, s)
    BY <1>3, <2>1, ParentCore DEF Ends
  <2>2. CASE HaltRoot(p)
    BY <1>3, <2>2, RootCore DEF Ends
  <2> QED BY <1>3, <2>1, <2>2 DEF Ends
<1>4. ASSUME NEW t \in Terminals, OpenTerminal(t) PROVE Core'
  BY <1>4, OpenCore
<1>5. ASSUME Tick PROVE Core'
  BY <1>5, TickCore
<1>6. ASSUME Still PROVE Core'
  BY <1>6, CoreKept DEF Core, Still
<1>7. ASSUME NEW p \in Pids, Refused(p) PROVE Still
  BY <1>7 DEF Refused, Still
<1>8. ASSUME NEW p \in Pids, NEW n \in Int, getargs(p, n) PROVE Still
  BY <1>8 DEF getargs, Still
<1>9. ASSUME UNCHANGED <<chain, cpu, pc, restarts, argvars, retvars, stackvars>> PROVE Still
  BY <1>9 DEF Still
<1> QED BY <1>1, <1>2, <1>3, <1>4, <1>5, <1>6, <1>7, <1>8, <1>9, StepKinds, Zenon

LEMMA CoreInit == Init => Core
<1> SUFFICES ASSUME Init PROVE Core
  OBVIOUS
<1>1. 0 \in Terminals /\ 1 \in Pids
  BY BoundsAssumption DEF Terminals, Pids
<1>2. /\ <<1>> \in Seq(Pids) /\ << >> \in Seq(Pids) /\ Len(<<1>>) = 1 /\ Len(<< >>) = 0
      /\ DOMAIN <<1>> = {1} /\ <<1>>[1] = 1
  BY <1>1
<1>3. \A t \in Terminals : chain[t] = IF t = 0 THEN <<1>> ELSE << >>
  BY DEF Init
<1>4. chain \in [Terminals -> Seq(Pids)] /\ cpu \in Terminals /\ pc \in [Pids -> Phases]
  BY <1>1, <1>2 DEF Init, Phases
<1>5. \A t \in Terminals : \A i \in DOMAIN chain[t] : t = 0 /\ i = 1 /\ chain[t][i] = 1
  <2> SUFFICES ASSUME NEW t \in Terminals, NEW i \in DOMAIN chain[t]
               PROVE  t = 0 /\ i = 1 /\ chain[t][i] = 1
    OBVIOUS
  <2>1. CASE t = 0
    BY <1>2, <1>3, <2>1
  <2>2. CASE t # 0
    BY <1>3, <2>2
  <2> QED BY <2>1, <2>2
<1>6. pc[1] = "user"
  BY <1>1 DEF Init
<1>7. Distinct /\ Living
  BY <1>5, <1>6 DEF Distinct, Living
<1>8. Waiting
  <2> SUFFICES ASSUME NEW t \in Terminals
               PROVE  Len(chain[t]) <= 1 /\ Len(chain[t]) \in Nat
    BY DEF Waiting
  <2>1. CASE t = 0
    <3>1. chain[t] = <<1>>
      BY <1>3, <2>1
    <3>2. Len(chain[t]) = 1
      BY <1>2, <3>1
    <3> QED BY <3>2
  <2>2. CASE t # 0
    BY <1>2, <1>3, <2>2
  <2> QED BY <2>1, <2>2
<1> QED BY <1>4, <1>7, <1>8 DEF Core

-----------------------------------------------------------------------------
(* The arguments.                                                          *)

\* Command lines behind a program's name that fit a control block, and a block that holds
\* one and is NUL from its end on.
Lines == {a \in Seq(Nat \ {NUL}) : Len(a) < ARGS_BUFFER_SIZE}
Zeroed(a) == [i \in 0 .. ARGS_BUFFER_SIZE - 1 |-> IF i < Len(a) THEN a[i + 1] ELSE NUL]
Buffers == {Zeroed(a) : a \in Lines}

LEMMA LineFacts ==
    ASSUME NEW a \in Lines
    PROVE  /\ a \in Seq(Nat \ {NUL}) /\ Len(a) \in Nat /\ DOMAIN a = 1 .. Len(a)
           /\ Len(a) \in 0 .. ARGS_BUFFER_SIZE - 1
           /\ \A i \in 1 .. Len(a) : a[i] \in Nat /\ a[i] # NUL
           /\ ARGS_BUFFER_SIZE \in Nat
BY ArgumentsAssumption DEF Lines

LEMMA EmptyLine == << >> \in Lines /\ Len(<< >>) = 0
<1>1. << >> \in Seq(Nat \ {NUL}) /\ Len(<< >>) = 0
  OBVIOUS
<1> QED BY <1>1, ArgumentsAssumption DEF Lines

\* strlen stops at the first NUL.
LEMMA StrlenZeroed ==
    ASSUME NEW a \in Lines
    PROVE  strlen(Zeroed(a)) = Len(a)
<1> DEFINE n == Len(a)
           b == Zeroed(a)
<1>1. /\ n \in Nat /\ n \in 0 .. ARGS_BUFFER_SIZE - 1 /\ ARGS_BUFFER_SIZE \in Nat
      /\ \A i \in 1 .. n : a[i] # NUL
  BY LineFacts
<1>2. DOMAIN b = 0 .. ARGS_BUFFER_SIZE - 1
  BY DEF Zeroed
<1>3. \A i \in 0 .. ARGS_BUFFER_SIZE - 1 : b[i] = IF i < n THEN a[i + 1] ELSE NUL
  BY DEF Zeroed
<1> HIDE DEF b, n
<1>4. n \in DOMAIN b /\ b[n] = NUL /\ \A i \in 0 .. n - 1 : b[i] # NUL
  BY <1>1, <1>2, <1>3
<1>5. ASSUME NEW k \in DOMAIN b, b[k] = NUL, \A i \in 0 .. k - 1 : b[i] # NUL
      PROVE  k = n
  <2>1. k \in Nat /\ k \in 0 .. ARGS_BUFFER_SIZE - 1
    BY <1>1, <1>2
  <2>2. ~(k < n)
    <3> SUFFICES ASSUME k < n PROVE FALSE
      OBVIOUS
    <3>1. k \in 0 .. n - 1
      BY <1>1, <2>1
    <3> QED BY <1>4, <1>5, <3>1
  <2>3. ~(n < k)
    <3> SUFFICES ASSUME n < k PROVE FALSE
      OBVIOUS
    <3>1. n \in 0 .. k - 1
      BY <1>1, <2>1
    <3> QED BY <1>4, <1>5, <3>1
  <2> QED BY <1>1, <2>1, <2>2, <2>3
<1>6. strlen(b) = n
  BY <1>4, <1>5, Zenon DEF strlen
<1> QED BY <1>6 DEF b, n

\* clear_args clears all of it, although its loop stops at the first NUL.
LEMMA ClearZeroed ==
    ASSUME NEW a \in Lines
    PROVE  clear_args(Zeroed(a)) = Zeroed(<< >>)
<1>1. Len(a) \in Nat /\ ARGS_BUFFER_SIZE \in Nat /\ Len(<< >>) = 0
  BY LineFacts, EmptyLine
<1>2. strlen(Zeroed(a)) = Len(a)
  BY StrlenZeroed
<1>3. clear_args(Zeroed(a)) = [i \in DOMAIN Zeroed(a) |-> IF i < Len(a) THEN NUL ELSE Zeroed(a)[i]]
  BY <1>2 DEF clear_args
<1>4. DOMAIN Zeroed(a) = 0 .. ARGS_BUFFER_SIZE - 1
      /\ \A i \in 0 .. ARGS_BUFFER_SIZE - 1 : Zeroed(a)[i] = IF i < Len(a) THEN a[i + 1] ELSE NUL
  BY DEF Zeroed
<1>5. clear_args(Zeroed(a)) = [i \in 0 .. ARGS_BUFFER_SIZE - 1 |-> NUL]
  BY <1>3, <1>4
<1>6. Zeroed(<< >>) = [i \in 0 .. ARGS_BUFFER_SIZE - 1 |-> NUL]
  <2>1. \A i \in 0 .. ARGS_BUFFER_SIZE - 1 : ~(i < Len(<< >>))
    BY <1>1
  <2> QED BY <2>1 DEF Zeroed
<1> QED BY <1>5, <1>6

\* The copy of a shorter or equal line over what was there gives that line; a longer rest
\* stays, but the block again ends in NULs.
LEMMA CopyZeroed ==
    ASSUME NEW a \in Lines, NEW b \in Lines
    PROVE  /\ strncpy(Zeroed(b), Cells0(a), Len(a)) \in Buffers
           /\ Len(b) <= Len(a) => strncpy(Zeroed(b), Cells0(a), Len(a)) = Zeroed(a)
<1> DEFINE n == Len(a)
           m == Len(b)
           N == ARGS_BUFFER_SIZE
           r == strncpy(Zeroed(b), Cells0(a), n)
<1>1. /\ n \in Nat /\ n \in 0 .. N - 1 /\ N \in Nat /\ m \in Nat /\ m \in 0 .. N - 1
      /\ \A i \in 1 .. n : a[i] \in Nat /\ a[i] # NUL
      /\ \A i \in 1 .. m : b[i] \in Nat /\ b[i] # NUL
  BY LineFacts
<1>2. \A k \in 0 .. n - 1 : Cells0(a)[k] = a[k + 1] /\ Cells0(a)[k] # NUL
  BY <1>1 DEF Cells0
<1>3. DOMAIN Zeroed(b) = 0 .. N - 1
      /\ \A i \in 0 .. N - 1 : Zeroed(b)[i] = IF i < m THEN b[i + 1] ELSE NUL
  BY DEF Zeroed
<1>4. r = [i \in 0 .. N - 1 |-> IF i < n THEN Cells0(a)[i] ELSE IF i < n THEN NUL ELSE Zeroed(b)[i]]
  BY <1>2, <1>3 DEF strncpy
<1> HIDE DEF r, n, m
<1>5. r = [i \in 0 .. N - 1 |-> IF i < n THEN a[i + 1] ELSE IF i < m THEN b[i + 1] ELSE NUL]
  <2>1. \A i \in 0 .. N - 1 : i < n => i \in 0 .. n - 1
    BY <1>1
  <2> QED BY <1>2, <1>3, <1>4, <2>1
<1>6. m <= n => r = Zeroed(a)
  <2> SUFFICES ASSUME m <= n PROVE r = Zeroed(a)
    OBVIOUS
  <2>1. \A i \in 0 .. N - 1 : ~(i < n) => ~(i < m)
    BY <1>1
  <2>2. r = [i \in 0 .. N - 1 |-> IF i < n THEN a[i + 1] ELSE NUL]
    BY <1>5, <2>1
  <2> QED BY <2>2 DEF Zeroed, n
<1>7. r \in Buffers
  <2>1. CASE m <= n
    BY <1>6, <2>1 DEF Buffers
  <2>2. CASE n < m
    <3> DEFINE w == [i \in 1 .. m |-> IF i <= n THEN a[i] ELSE b[i]]
    <3>1. w \in [1 .. m -> Nat \ {NUL}]
      BY <1>1
    <3>2. w \in Seq(Nat \ {NUL}) /\ Len(w) = m
      BY <1>1, <3>1
    <3>3. w \in Lines
      BY <1>1, <3>2 DEF Lines
    <3>4. \A i \in 0 .. N - 1 : i < m => w[i + 1] = IF i < n THEN a[i + 1] ELSE b[i + 1]
      BY <1>1
    <3> HIDE DEF w
    <3>5. \A i \in 0 .. N - 1 : (IF i < n THEN a[i + 1] ELSE IF i < m THEN b[i + 1] ELSE NUL)
                                  = IF i < m THEN w[i + 1] ELSE NUL
      BY <1>1, <2>2, <3>4
    <3>6. r = [i \in 0 .. N - 1 |-> IF i < m THEN w[i + 1] ELSE NUL]
      BY <1>5, <3>5
    <3>7. r = Zeroed(w)
      BY <3>2, <3>6 DEF Zeroed
    <3> QED BY <3>3, <3>7 DEF Buffers
  <2> QED BY <1>1, <2>1, <2>2
<1> QED BY <1>6, <1>7 DEF r, n, m

LEMMA PassZeroed ==
    ASSUME NEW a \in Lines, NEW b \in Lines
    PROVE  /\ PassArgs(Zeroed(b), a) \in Buffers
           /\ ~(a # << >> /\ Len(b) > Len(a)) => PassArgs(Zeroed(b), a) = Zeroed(a)
<1>1. CASE a = << >>
  BY <1>1, ClearZeroed, EmptyLine DEF PassArgs, Buffers
<1>2. CASE a # << >>
  <2>1. PassArgs(Zeroed(b), a) = strncpy(Zeroed(b), Cells0(a), Len(a))
    BY <1>2 DEF PassArgs
  <2>2. ~(Len(b) > Len(a)) => Len(b) <= Len(a)
    BY LineFacts
  <2> QED BY <1>2, <2>1, <2>2, CopyZeroed
<1> QED BY <1>1, <1>2

\* getargs stores exactly the line a block holds.
LEMMA GivenZeroed ==
    ASSUME NEW p \in Pids, NEW a \in Lines, args[p] = Zeroed(a)
    PROVE  Given(p) = a
<1> DEFINE n == Len(a)
           N == ARGS_BUFFER_SIZE
           full == [i \in 0 .. N |-> 9]
           src == Zeroed(a)
           g == strncpy(full, src, n)
           r == [g EXCEPT ![n] = NUL]
<1>1. /\ n \in Nat /\ n \in 0 .. N - 1 /\ N \in Nat
      /\ a \in Seq(Nat \ {NUL}) /\ \A i \in 1 .. n : a[i] \in Nat /\ a[i] # NUL
  BY LineFacts
<1>2. strlen(args[p]) = n
  BY StrlenZeroed
<1>3. \A i \in 0 .. N - 1 : src[i] = IF i < n THEN a[i + 1] ELSE NUL
  BY DEF Zeroed
<1>4. Given(p) = Pending(r)
  BY <1>2 DEF Given
<1> HIDE DEF src
<1>5. \A k \in 0 .. n - 1 : src[k] = a[k + 1] /\ src[k] # NUL
  BY <1>1, <1>3
<1>6. g = [i \in 0 .. N |-> IF i < n THEN src[i] ELSE IF i < n THEN NUL ELSE full[i]]
  BY <1>5 DEF strncpy
<1>7. DOMAIN r = 0 .. N /\ r[n] = NUL /\ \A i \in 0 .. n - 1 : r[i] = a[i + 1] /\ r[i] # NUL
  <2>1. DOMAIN g = 0 .. N
    BY <1>6
  <2>2. \A i \in 0 .. n - 1 : i \in 0 .. N /\ i < n /\ i # n
    BY <1>1
  <2>3. \A i \in 0 .. n - 1 : g[i] = src[i]
    BY <1>6, <2>2
  <2> HIDE DEF g, n
  <2>4. n \in 0 .. N
    BY <1>1
  <2> QED BY <1>5, <2>1, <2>2, <2>3, <2>4
<1> HIDE DEF r, n
<1>8. strlen(r) = n
  <2>1. ASSUME NEW k \in DOMAIN r, r[k] = NUL, \A i \in 0 .. k - 1 : r[i] # NUL
        PROVE  k = n
    <3>1. k \in Nat
      BY <1>1, <1>7
    <3>2. k \notin 0 .. n - 1 /\ n \notin 0 .. k - 1
      BY <1>7, <2>1
    <3> QED BY <1>1, <3>1, <3>2
  <2>2. n \in DOMAIN r
    BY <1>1, <1>7
  <2> QED BY <1>7, <2>1, <2>2, Zenon DEF strlen
<1>9. Pending(r) = [i \in 1 .. n |-> r[i - 1]]
  BY <1>8 DEF Pending
<1>10. \A i \in 1 .. n : r[i - 1] = a[i]
  <2> SUFFICES ASSUME NEW i \in 1 .. n PROVE r[i - 1] = a[i]
    OBVIOUS
  <2>1. i - 1 \in 0 .. n - 1 /\ (i - 1) + 1 = i
    BY <1>1
  <2> QED BY <1>7, <2>1
<1>11. [i \in 1 .. n |-> r[i - 1]] = [i \in 1 .. n |-> a[i]]
  BY <1>10
<1>12. a = [i \in 1 .. n |-> a[i]]
  BY <1>1 DEF n
<1> QED BY <1>4, <1>9, <1>11, <1>12

\* What the control blocks hold: of a process that was not started over a longer line,
\* its own arguments until it has read them.
ArgBlocks ==
    /\ args \in [Pids -> Buffers] /\ given \in [Pids -> Lines]
    /\ consumed \subseteq Pids /\ mixed \subseteq Pids
    /\ \A p \in Alive \ mixed : args[p] = Zeroed(IF p \in consumed THEN << >> ELSE given[p])

\* A new process c with line a; callers is the process that started it, or nobody.
LEMMA StartBlocks ==
    ASSUME ArgBlocks, NEW c \in Pids, NEW callers \in SUBSET Pids, c \notin callers, NEW a \in Lines,
           StartArgs(c, callers, a), Alive' \subseteq Alive \cup {c}
    PROVE  ArgBlocks'
<1>1. PICK b \in Lines : args[c] = Zeroed(b)
  BY DEF ArgBlocks, Buffers
<1>2. \A p \in Pids : \E l \in Lines : args[p] = Zeroed(l)
  BY DEF ArgBlocks, Buffers
<1>3. /\ args' = [p \in Pids |-> IF p = c THEN PassArgs(args[c], a)
                                 ELSE IF p \in callers THEN clear_args(args[p]) ELSE args[p]]
      /\ given' = [given EXCEPT ![c] = a] /\ consumed' = (consumed \ {c}) \cup callers
      /\ mixed' = IF a # << >> /\ Len(b) > Len(a) THEN mixed \cup {c} ELSE mixed \ {c}
  BY <1>1, StrlenZeroed DEF StartArgs
<1>4. \A p \in callers : clear_args(args[p]) = Zeroed(<< >>)
  BY <1>2, ClearZeroed
<1>5. /\ args'[c] = PassArgs(Zeroed(b), a)
      /\ \A p \in Pids \ {c} : args'[p] = IF p \in callers THEN Zeroed(<< >>) ELSE args[p]
  BY <1>1, <1>3, <1>4
<1>6. \A p \in Pids : args'[p] \in Buffers
  <2> SUFFICES ASSUME NEW p \in Pids PROVE args'[p] \in Buffers
    OBVIOUS
  <2>1. CASE p = c
    BY <1>5, <2>1, PassZeroed
  <2>2. CASE p # c
    BY <1>5, <2>2, EmptyLine DEF ArgBlocks, Buffers
  <2> QED BY <2>1, <2>2
<1>7. args' \in [Pids -> Buffers]
  BY <1>3, <1>6
<1>8. given' \in [Pids -> Lines] /\ consumed' \subseteq Pids /\ mixed' \subseteq Pids
  BY <1>3 DEF ArgBlocks
<1>9. ASSUME NEW p \in Alive' \ mixed'
      PROVE  args'[p] = Zeroed(IF p \in consumed' THEN << >> ELSE given'[p])
  <2>1. p \in Pids
    BY DEF Alive
  <2>2. CASE p = c
    <3>1. ~(a # << >> /\ Len(b) > Len(a))
      BY <1>3, <1>9, <2>2
    <3>2. args'[p] = Zeroed(a)
      BY <1>5, <2>2, <3>1, PassZeroed
    <3>3. p \notin consumed' /\ given'[p] = a
      BY <1>3, <2>2 DEF ArgBlocks
    <3> QED BY <3>2, <3>3
  <2>3. CASE p \in callers
    BY <1>3, <1>5, <2>1, <2>3
  <2>4. CASE p # c /\ p \notin callers
    <3>1. p \in Alive \ mixed /\ args'[p] = args[p] /\ given'[p] = given[p] /\ (p \in consumed' <=> p \in consumed)
      BY <1>3, <1>5, <1>9, <2>1, <2>4 DEF ArgBlocks
    <3> QED BY <3>1 DEF ArgBlocks
  <2> QED BY <2>2, <2>3, <2>4
<1> QED BY <1>7, <1>8, <1>9 DEF ArgBlocks

\* The blocks are as before and no process is new.
LEMMA KeptBlocks ==
    ASSUME ArgBlocks, UNCHANGED argvars, Alive' \subseteq Alive
    PROVE  ArgBlocks'
BY DEF ArgBlocks, argvars

LEMMA ArgBlocksStep ==
    ASSUME Core, ArgBlocks, [Next]_vars
    PROVE  ArgBlocks'
<1>1. ASSUME NEW p \in Pids, Phase(p) PROVE ArgBlocks'
  <2>1. p \in Alive /\ UNCHANGED argvars
    BY <1>1, PhaseCore DEF Phase, Call, CallReturns, Store, Load
  <2>2. PICK ph : pc' = [pc EXCEPT ![p] = ph]
    BY <1>1 DEF Phase, Call, CallReturns, Store, Load
  <2>3. Alive' \subseteq Alive
    BY <2>1, <2>2 DEF Alive, Core
  <2> QED BY <2>1, <2>3, KeptBlocks
<1>2. ASSUME NEW p \in Pids, NEW prog \in Executables, NEW a \in Arguments, Execute(p, prog, a) PROVE ArgBlocks'
  <2>1. p \in Alive /\ \E c \in Pids : /\ c # p /\ c = LowestFree(Alive)
                                       /\ pc' = [pc EXCEPT ![p] = "waits", ![c] = "user"]
    BY <1>2, ExecuteCore
  <2>2. PICK c \in Pids : /\ c # p /\ c = LowestFree(Alive)
                          /\ pc' = [pc EXCEPT ![p] = "waits", ![c] = "user"]
    BY <2>1
  <2>3. StartArgs(c, {p}, a)
    BY <1>2, <2>2 DEF Execute
  <2>4. Alive' \subseteq Alive \cup {c}
    BY <2>1, <2>2 DEF Alive, Core
  <2>5. a \in Lines
    BY ArgumentsAssumption DEF Lines
  <2> QED BY <2>2, <2>3, <2>4, <2>5, StartBlocks
<1>3. ASSUME NEW p \in Pids, NEW s \in Int, Ends(p, s), HaltToParent(p, s) PROVE ArgBlocks'
  <2>1. PICK parent \in Pids :
          /\ pc[parent] = "waits" /\ parent # p
          /\ pc' = [pc EXCEPT ![p] = "free", ![parent] = "halted"]
    BY <1>3, ParentCore DEF Ends
  <2>2. /\ given' = [given EXCEPT ![p] = << >>] /\ consumed' = consumed \ {p} /\ mixed' = mixed \ {p}
        /\ args' = args
    BY <1>3 DEF HaltToParent
  <2>3. Alive' \subseteq Alive \ {p}
    BY <2>1 DEF Alive, Core
  <2>4. given' \in [Pids -> Lines] /\ consumed' \subseteq Pids /\ mixed' \subseteq Pids /\ args' \in [Pids -> Buffers]
    BY <2>2, EmptyLine DEF ArgBlocks
  <2>5. ASSUME NEW q \in Alive' \ mixed'
        PROVE  args'[q] = Zeroed(IF q \in consumed' THEN << >> ELSE given'[q])
    <3>1. q \in Pids /\ q # p /\ q \in Alive \ mixed
      BY <2>2, <2>3, <2>5 DEF Alive
    <3>2. given'[q] = given[q] /\ (q \in consumed' <=> q \in consumed)
      BY <2>2, <3>1 DEF ArgBlocks
    <3> QED BY <2>2, <3>1, <3>2 DEF ArgBlocks
  <2> QED BY <2>4, <2>5 DEF ArgBlocks
<1>4. ASSUME NEW p \in Pids, NEW s \in Int, Ends(p, s), HaltRoot(p) PROVE ArgBlocks'
  <2>1. p \in Alive /\ \E c \in Pids :
          /\ c = LowestFree(Alive \ {p})
          /\ pc' = [q \in Pids |-> IF q = c THEN "user" ELSE IF q = p THEN "free" ELSE pc[q]]
    BY <1>4, RootCore DEF Ends
  <2>2. PICK c \in Pids :
          /\ c = LowestFree(Alive \ {p})
          /\ pc' = [q \in Pids |-> IF q = c THEN "user" ELSE IF q = p THEN "free" ELSE pc[q]]
    BY <2>1
  <2>3. StartArgs(c, {}, << >>)
    BY <1>4, <2>2 DEF HaltRoot
  <2>4. Alive' \subseteq Alive \cup {c}
    BY <2>2 DEF Alive
  <2> QED BY <2>3, <2>4, EmptyLine, StartBlocks
<1>5. ASSUME NEW t \in Terminals, OpenTerminal(t) PROVE ArgBlocks'
  <2>1. PICK c \in Pids : c = LowestFree(Alive) /\ pc' = [pc EXCEPT ![c] = "user"]
    BY <1>5, OpenCore
  <2>2. StartArgs(c, {}, << >>)
    BY <1>5, <2>1 DEF OpenTerminal
  <2>3. Alive' \subseteq Alive \cup {c}
    BY <2>1 DEF Alive, Core
  <2> QED BY <2>2, <2>3, EmptyLine, StartBlocks
<1>6. ASSUME NEW p \in Pids, NEW n \in Int, getargs(p, n) PROVE ArgBlocks'
  <2>1. UNCHANGED <<pc, given, mixed>> /\ Alive' = Alive
    BY <1>6 DEF getargs, Alive
  <2>2. CASE UNCHANGED <<args, consumed>>
    BY <2>1, <2>2, KeptBlocks DEF argvars
  <2>3. CASE args' = [args EXCEPT ![p] = clear_args(args[p])] /\ consumed' = consumed \cup {p}
    <3>1. clear_args(args[p]) = Zeroed(<< >>)
      BY ClearZeroed DEF ArgBlocks, Buffers
    <3>2. args' = [args EXCEPT ![p] = Zeroed(<< >>)] /\ Zeroed(<< >>) \in Buffers
      BY <2>3, <3>1, EmptyLine DEF Buffers
    <3> QED BY <2>1, <2>3, <3>2 DEF ArgBlocks
  <2> QED BY <1>6, <2>2, <2>3 DEF getargs
<1>7. ASSUME UNCHANGED <<pc, argvars>> PROVE ArgBlocks'
  BY <1>7, KeptBlocks DEF Alive
<1>8. ASSUME Tick PROVE UNCHANGED <<pc, argvars>>
  BY <1>8 DEF Tick
<1>9. ASSUME NEW p \in Pids, Refused(p) PROVE UNCHANGED <<pc, argvars>>
  BY <1>9 DEF Refused
<1>10. ASSUME UNCHANGED <<chain, cpu, pc, restarts, argvars, retvars, stackvars>> PROVE UNCHANGED <<pc, argvars>>
  BY <1>10
<1>11. ASSUME NEW p \in Pids, NEW s \in Int, Ends(p, s) PROVE ArgBlocks'
  BY <1>3, <1>4, <1>11 DEF Ends
<1> QED BY <1>1, <1>2, <1>5, <1>6, <1>7, <1>8, <1>9, <1>10, <1>11, StepKinds, Zenon

LEMMA ArgBlocksInit == Init => ArgBlocks
<1> SUFFICES ASSUME Init PROVE ArgBlocks
  OBVIOUS
<1>1. Zeroed(<< >>) = Empty /\ << >> \in Lines
  <2>1. \A i \in 0 .. ARGS_BUFFER_SIZE - 1 : ~(i < Len(<< >>))
    BY EmptyLine, ArgumentsAssumption
  <2> QED BY <2>1, EmptyLine DEF Zeroed, Empty
<1>2. args \in [Pids -> Buffers] /\ given \in [Pids -> Lines] /\ consumed \subseteq Pids /\ mixed \subseteq Pids
  BY <1>1 DEF Init, Buffers
<1>3. \A p \in Pids : args[p] = Zeroed(<< >>) /\ given[p] = << >>
  BY <1>1 DEF Init
<1> QED BY <1>2, <1>3 DEF ArgBlocks, Alive

\* For every set of programs, arguments and buffer sizes: a process finds in its control
\* block exactly the arguments it was started with, once, or none, unless it was started
\* over a longer line that nobody had read.
THEOREM ArgsCorrect == Spec => []ArgsDelivered
<1>1. Init => Core /\ ArgBlocks
  BY CoreInit, ArgBlocksInit
<1>2. Core /\ ArgBlocks /\ [Next]_vars => (Core /\ ArgBlocks)'
  BY CoreStep, ArgBlocksStep
<1>3. ASSUME ArgBlocks PROVE ArgsDelivered
  <2> SUFFICES ASSUME NEW p \in Alive \ mixed
               PROVE  Given(p) = IF p \in consumed THEN << >> ELSE given[p]
    BY DEF ArgsDelivered
  <2> DEFINE a == IF p \in consumed THEN << >> ELSE given[p]
  <2>1. p \in Pids
    BY DEF Alive
  <2>2. a \in Lines /\ args[p] = Zeroed(a)
    BY <1>3, <2>1, EmptyLine DEF ArgBlocks
  <2> HIDE DEF a
  <2>3. Given(p) = a
    BY <2>1, <2>2, GivenZeroed
  <2> QED BY <2>3 DEF a
<1> QED BY <1>1, <1>2, <1>3, PTL DEF Spec

-----------------------------------------------------------------------------
(* The kernel stacks.                                                      *)

\* The places below which a live process q has frames.
LEMMA TopsValue ==
    ASSUME NEW q \in Pids, NEW top \in Tops(q)
    PROVE  q \in Nat /\ (top = esp0(q) \/ (top = esp0(q) - STACK_DEPTH /\ pc[q] = "halted"))
<1>1. q \in Nat
  BY PidNumbers
<1> QED BY <1>1 DEF Tops

\* execute on the stack of a process that is in user mode reaches the frames of the next
\* pid at most, and with a short program not even those.
LEMMA ExecuteApart ==
    ASSUME NEW prog \in Executables, NEW p \in Pids, pc[p] = "user",
           NEW q \in Overwritten(esp0(p), prog, Alive)
    PROVE  q = p + 1 /\ Size[prog] > SAFE_SIZE
<1>1. Size[prog] \in Nat /\ p \in Nat
  BY ShellAssumption, PidNumbers
<1>2. PICK z \in Nat : z = Lesser(Size[prog], READ_LENGTH) /\ z <= Size[prog] /\ z <= 10000
  BY <1>1 DEF Lesser, READ_LENGTH
<1>3. q \in Alive /\ \E top \in Tops(q) : esp0(p) - STACK_DEPTH - LIVE < top /\ top - LIVE < esp0(p) - BUF_DEPTH + z
  BY <1>2 DEF Overwritten
<1>4. PICK top \in Tops(q) : esp0(p) - STACK_DEPTH - LIVE < top /\ top - LIVE < esp0(p) - BUF_DEPTH + z
  BY <1>3
<1>5. q \in Pids
  BY <1>3 DEF Alive
<1>6. q \in Nat /\ (top = esp0(q) \/ (top = esp0(q) - STACK_DEPTH /\ q # p))
  BY <1>4, <1>5, TopsValue
<1> QED BY <1>1, <1>2, <1>4, <1>6 DEF esp0, KERNEL_TOP, BUF_DEPTH, STACK_DEPTH, LIVE, SAFE_SIZE

\* execute for a new terminal, in a keyboard handler at either depth, reaches nothing.
LEMMA OpenApart ==
    ASSUME Size["shell"] <= SAFE_SIZE, NEW r \in Pids, NEW sp,
           sp = esp0(r) - HANDLER_DEPTH - (IF pc[r] = "halted" THEN STACK_DEPTH ELSE 0)
    PROVE  Overwritten(sp, "shell", Alive) = {}
<1> SUFFICES ASSUME NEW q \in Overwritten(sp, "shell", Alive) PROVE FALSE
  OBVIOUS
<1>1. Size["shell"] \in Nat /\ r \in Nat
  BY ShellAssumption, PidNumbers
<1>2. PICK z \in Nat : z = Lesser(Size["shell"], READ_LENGTH) /\ z <= 6316
  BY <1>1 DEF Lesser, READ_LENGTH, SAFE_SIZE
<1>3. q \in Alive /\ \E top \in Tops(q) : sp - STACK_DEPTH - LIVE < top /\ top - LIVE < sp - BUF_DEPTH + z
  BY <1>2 DEF Overwritten
<1>4. PICK top \in Tops(q) : sp - STACK_DEPTH - LIVE < top /\ top - LIVE < sp - BUF_DEPTH + z
  BY <1>3
<1>5. q \in Pids
  BY <1>3 DEF Alive
<1>6. q \in Nat /\ (top = esp0(q) \/ (top = esp0(q) - STACK_DEPTH /\ pc[q] = "halted"))
  BY <1>4, <1>5, TopsValue
<1> USE DEF esp0, KERNEL_TOP, BUF_DEPTH, STACK_DEPTH, LIVE, HANDLER_DEPTH
<1>7. CASE pc[r] = "halted"
  BY <1>1, <1>2, <1>4, <1>6, <1>7
<1>8. CASE pc[r] # "halted"
  <2>1. top = esp0(q) \/ (top = esp0(q) - STACK_DEPTH /\ q # r)
    BY <1>6, <1>8
  <2> QED BY <1>1, <1>2, <1>4, <1>6, <1>8, <2>1
<1> QED BY <1>7, <1>8

\* What a step may do to the live frames: a new root shell aside, only a program longer
\* than SAFE_SIZE tears any, and those of the pid behind the caller's.
TearsNext ==
    \/ torn' \subseteq torn
    \/ \E p \in Pids : HaltRoot(p)
    \/ \E p \in Pids, prog \in Executables, a \in Arguments :
          Execute(p, prog, a) /\ Size[prog] > SAFE_SIZE /\ torn' \subseteq torn \cup {p + 1}

LEMMA TearsStep ==
    ASSUME Size["shell"] <= SAFE_SIZE, Core, [Next]_vars
    PROVE  TearsNext
<1>1. ASSUME NEW p \in Pids, Phase(p) PROVE torn' \subseteq torn
  BY <1>1 DEF Phase, Call, CallReturns, Store, Load, stackvars
<1>2. ASSUME NEW p \in Pids, NEW prog \in Executables, NEW a \in Arguments, Execute(p, prog, a)
      PROVE  TearsNext
  <2>1. /\ pc[p] = "user"
        /\ torn' = (torn \ {LowestFree(Alive)}) \cup Overwritten(esp0(p), prog, Alive)
    BY <1>2 DEF Execute
  <2>2. \A q \in Overwritten(esp0(p), prog, Alive) : q = p + 1 /\ Size[prog] > SAFE_SIZE
    BY <2>1, ExecuteApart
  <2>3. CASE Overwritten(esp0(p), prog, Alive) = {}
    BY <2>1, <2>3 DEF TearsNext
  <2>4. CASE Overwritten(esp0(p), prog, Alive) # {}
    <3>1. Size[prog] > SAFE_SIZE /\ torn' \subseteq torn \cup {p + 1}
      BY <2>1, <2>2, <2>4
    <3> QED BY <1>2, <3>1 DEF TearsNext
  <2> QED BY <2>3, <2>4
<1>3. ASSUME NEW p \in Pids, NEW s \in Int, Ends(p, s) PROVE TearsNext
  <2>1. CASE HaltToParent(p, s)
    BY <2>1 DEF HaltToParent, TearsNext
  <2>2. CASE HaltRoot(p)
    BY <2>2 DEF TearsNext
  <2> QED BY <1>3, <2>1, <2>2 DEF Ends
<1>4. ASSUME NEW t \in Terminals, OpenTerminal(t) PROVE torn' \subseteq torn
  <2>1. PICK sp : /\ sp = esp0(Running) - HANDLER_DEPTH - (IF pc[Running] = "halted" THEN STACK_DEPTH ELSE 0)
                  /\ torn' = (torn \ {LowestFree(Alive)}) \cup Overwritten(sp, "shell", Alive)
    BY <1>4 DEF OpenTerminal
  <2>2. Running \in Pids
    BY <1>4, OpenCore
  <2>3. Overwritten(sp, "shell", Alive) = {}
    BY <2>1, <2>2, OpenApart
  <2> QED BY <2>1, <2>3
<1>5. ASSUME Tick PROVE torn' \subseteq torn
  BY <1>5 DEF Tick, stackvars
<1>6. ASSUME NEW p \in Pids, Refused(p) PROVE torn' \subseteq torn
  BY <1>6 DEF Refused, stackvars
<1>7. ASSUME NEW p \in Pids, NEW n \in Int, getargs(p, n) PROVE torn' \subseteq torn
  BY <1>7 DEF getargs, stackvars
<1>8. ASSUME UNCHANGED <<chain, cpu, pc, restarts, argvars, retvars, stackvars>> PROVE torn' \subseteq torn
  BY <1>8 DEF stackvars
<1>9. ASSUME torn' \subseteq torn PROVE TearsNext
  BY <1>9 DEF TearsNext
<1> QED BY <1>1, <1>2, <1>3, <1>4, <1>5, <1>6, <1>7, <1>8, <1>9, StepKinds, Zenon

\* With a shell of at most SAFE_SIZE bytes (fsdir/shell has 5605), for every number of
\* terminals and processes and all programs: an execute by a program or for a new terminal
\* stores into live kernel frames only when the program is longer than SAFE_SIZE, and then
\* into those of the next pid.  Root shells that exit and start again are left out: their
\* frames grow down without a bound.
THEOREM OnlyLongTear ==
    ASSUME Size["shell"] <= SAFE_SIZE
    PROVE  Spec => [][TearsNext]_vars
<1>1. Init => Core
  BY CoreInit
<1>2. Core /\ [Next]_vars => Core'
  BY CoreStep
<1>3. Core /\ [Next]_vars => [TearsNext]_vars
  BY TearsStep
<1> QED BY <1>1, <1>2, <1>3, PTL DEF Spec

-----------------------------------------------------------------------------
(* Induction, over numbers given as a set.                                 *)

\* All smaller numbers up to n have the property.
LEMMA StrongInduction ==
    ASSUME NEW S, NEW n \in Nat,
           \A m \in 0 .. n : (\A k \in 0 .. m - 1 : k \in S) => m \in S
    PROVE  \A m \in 0 .. n : m \in S
<1>1. SUFFICES ASSUME NEW bad \in 0 .. n, bad \notin S PROVE FALSE
  OBVIOUS
<1> DEFINE T == {k \in 0 .. n : k \notin S}
<1>2. PICK m \in T : \A k \in T : m <= k
  <2>1. T \in SUBSET Nat /\ T # {}
    BY <1>1
  <2> HIDE DEF T
  <2> QED BY <2>1, LeastElement
<1>3. \A k \in 0 .. m - 1 : k \in S
  BY <1>2
<1> QED BY <1>2, <1>3

\* The step from each number to the next suffices.
LEMMA LoopInduction ==
    ASSUME NEW S, NEW n \in Nat, 0 \in S,
           \A m \in 0 .. n - 1 : m \in S => m + 1 \in S
    PROVE  \A m \in 0 .. n : m \in S
<1>1. SUFFICES ASSUME NEW m \in 0 .. n, \A k \in 0 .. m - 1 : k \in S PROVE m \in S
  BY StrongInduction
<1>2. CASE m = 0
  BY <1>2
<1>3. CASE m # 0
  <2>1. m - 1 \in 0 .. n - 1 /\ m - 1 \in 0 .. m - 1 /\ (m - 1) + 1 = m
    BY <1>3
  <2> QED BY <1>1, <2>1
<1> QED BY <1>2, <1>3

\* g is the recursive function on 0 .. N that is s at 0 and takes its value at n, through
\* F[n], from the one at the smaller P[n].
IsRun(g, S, s, N, P, F) == /\ g \in [0 .. N -> S]
                           /\ g[0] = s
                           /\ \A n \in 1 .. N : g[n] = F[n][g[P[n]]]

\* It exists: a recursive function of the model is what its equation says.
LEMMA RunExists ==
    ASSUME NEW S, NEW s \in S, NEW N \in Nat, NEW F \in [1 .. N -> [S -> S]],
           NEW P \in [1 .. N -> Nat], \A n \in 1 .. N : P[n] < n
    PROVE  \E g : IsRun(g, S, s, N, P, F)
<1> DEFINE Run(g, n) == g[0] = s /\ \A k \in 1 .. n : g[k] = F[k][g[P[k]]]
           Good == {n \in 0 .. N : \E g \in [0 .. n -> S] : Run(g, n)}
<1>1. 0 \in Good
  <2>1. [k \in 0 .. 0 |-> s] \in [0 .. 0 -> S] /\ Run([k \in 0 .. 0 |-> s], 0)
    OBVIOUS
  <2> HIDE DEF Run
  <2> QED BY <2>1
<1>2. ASSUME NEW m \in 0 .. N - 1, m \in Good PROVE m + 1 \in Good
  <2>1. PICK g \in [0 .. m -> S] : Run(g, m)
    BY <1>2
  <2> DEFINE h == [k \in 0 .. m + 1 |-> IF k <= m THEN g[k] ELSE F[m + 1][g[P[m + 1]]]]
  <2>2. m + 1 \in 1 .. N /\ P[m + 1] \in 0 .. m
    OBVIOUS
  <2>3. F[m + 1] \in [S -> S] /\ g[P[m + 1]] \in S
    BY <2>2
  <2>4. h \in [0 .. m + 1 -> S]
    BY <2>3
  <2>5. h[0] = s
    BY <2>1
  <2>6. ASSUME NEW k \in 1 .. m + 1 PROVE h[k] = F[k][h[P[k]]]
    <3>1. P[k] \in 0 .. k - 1 /\ P[k] <= m /\ P[k] \in 0 .. m + 1
      OBVIOUS
    <3>2. h[P[k]] = g[P[k]]
      BY <3>1
    <3>3. CASE k <= m
      <4>1. g[k] = F[k][g[P[k]]]
        BY <2>1, <3>3
      <4> QED BY <3>2, <3>3, <4>1
    <3>4. CASE k = m + 1
      BY <3>2, <3>4
    <3> QED BY <3>3, <3>4
  <2> HIDE DEF h
  <2>7. Run(h, m + 1)
    BY <2>5, <2>6
  <2> HIDE DEF Run
  <2>8. \E f \in [0 .. m + 1 -> S] : Run(f, m + 1)
    BY <2>4, <2>7
  <2> QED BY <2>2, <2>8
<1>3. N \in Good
  <2>1. \A m \in 0 .. N - 1 : m \in Good => m + 1 \in Good
    BY <1>2
  <2> HIDE DEF Good
  <2>2. \A m \in 0 .. N : m \in Good
    BY <1>1, <2>1, LoopInduction
  <2> QED BY <2>2
<1> QED BY <1>3 DEF IsRun

\* A loop: every iteration continues the one before it.
IsLoop(g, S, s, N, F) == /\ g \in [0 .. N -> S]
                         /\ g[0] = s
                         /\ \A n \in 1 .. N : g[n] = F[n][g[n - 1]]

\* Such a loop exists.
LEMMA LoopExists ==
    ASSUME NEW S, NEW s \in S, NEW N \in Nat, NEW F \in [1 .. N -> [S -> S]]
    PROVE  \E g : IsLoop(g, S, s, N, F)
<1> DEFINE P == [n \in 1 .. N |-> n - 1]
<1>1. P \in [1 .. N -> Nat] /\ \A n \in 1 .. N : P[n] < n /\ P[n] = n - 1
  OBVIOUS
<1> HIDE DEF P
<1>2. PICK g : IsRun(g, S, s, N, P, F)
  BY <1>1, RunExists
<1>3. IsLoop(g, S, s, N, F)
  BY <1>1, <1>2 DEF IsRun, IsLoop
<1> QED BY <1>3

-----------------------------------------------------------------------------
(* Memory.                                                                 *)

\* Memory with the addresses D.
IsMemory(mem, D) == D \in SUBSET Int /\ DOMAIN mem = D /\ mem = [a \in D |-> mem[a]]

\* The n bytes from a on are memory.
Inside(a, n, D) == a \in Int /\ n \in Nat /\ \A i \in 0 .. n - 1 : a + i \in D

\* Reading upwards meets no byte that was already stored.
Upwards(dest, src, n) == dest <= src \/ src + n <= dest

\* Two moves one behind the other are one.
LEMMA MovedTwice ==
    ASSUME NEW D, NEW mem, IsMemory(mem, D),
           NEW dest \in Int, NEW src \in Int, NEW j \in Nat, NEW k \in Nat,
           Inside(src, j + k, D), Upwards(dest, src, j + k)
    PROVE  Moved(Moved(mem, dest, src, j), dest + j, src + j, k) = Moved(mem, dest, src, j + k)
<1> DEFINE m == Moved(mem, dest, src, j)
           r == Moved(m, dest + j, src + j, k)
           t == Moved(mem, dest, src, j + k)
<1>0. D \in SUBSET Int /\ DOMAIN mem = D
  BY DEF IsMemory
<1>1. /\ m = [a \in D |-> IF a \in dest .. dest + j - 1 THEN mem[a - dest + src] ELSE mem[a]]
      /\ t = [a \in D |-> IF a \in dest .. dest + (j + k) - 1 THEN mem[a - dest + src] ELSE mem[a]]
  BY <1>0 DEF Moved
<1>2. r = [a \in D |-> IF a \in dest + j .. dest + j + k - 1 THEN m[a - (dest + j) + (src + j)] ELSE m[a]]
  BY <1>1 DEF Moved
<1> HIDE DEF m, r, t
<1>3. ASSUME NEW a \in D PROVE r[a] = t[a]
  <2>1. CASE a \in dest + j .. dest + j + k - 1
    <3>1. a - (dest + j) + (src + j) = a - dest + src /\ a - dest \in 0 .. (j + k) - 1 /\ src + (a - dest) = a - dest + src
      BY <1>0, <2>1
    <3>2. a - dest + src \in D
      BY <3>1 DEF Inside
    <3>3. a - dest + src \notin dest .. dest + j - 1
      BY <1>0, <2>1 DEF Upwards
    <3>4. r[a] = m[a - dest + src]
      BY <1>2, <2>1, <3>1
    <3>5. m[a - dest + src] = mem[a - dest + src]
      BY <1>1, <3>2, <3>3
    <3> QED BY <1>1, <2>1, <3>4, <3>5
  <2>2. CASE a \notin dest + j .. dest + j + k - 1
    <3>1. r[a] = m[a]
      BY <1>2, <2>2
    <3>2. a \in dest .. dest + j - 1 <=> a \in dest .. dest + (j + k) - 1
      BY <1>0, <2>2
    <3> QED BY <1>1, <3>1, <3>2
  <2> QED BY <2>1, <2>2
<1>4. r = t
  BY <1>1, <1>2, <1>3
<1> QED BY <1>4 DEF r, t, m

\* Byte q is stored at p.
Stored(m, p, q) == [m EXCEPT ![p] = m[q]]

\* One movb continues a move by one byte.
LEMMA MovedByte ==
    ASSUME NEW D, NEW mem, IsMemory(mem, D),
           NEW dest \in Int, NEW src \in Int, NEW n \in Nat, NEW i \in 1 .. n,
           Inside(dest, n, D), Inside(src, n, D), Upwards(dest, src, n),
           NEW k \in Int, k = i - 1, NEW m, m = Moved(mem, dest, src, k),
           NEW p \in Int, p = dest + i - 1, NEW q \in Int, q = src + i - 1
    PROVE  Stored(m, p, q) = Moved(mem, dest, src, i)
<1>0. D \in SUBSET Int /\ DOMAIN mem = D
  BY DEF IsMemory
<1>1. m = [a \in D |-> IF a \in dest .. dest + (i - 1) - 1 THEN mem[a - dest + src] ELSE mem[a]]
  BY <1>0 DEF Moved
<1>2. i - 1 \in 0 .. n - 1 /\ src + i - 1 = src + (i - 1) /\ dest + i - 1 = dest + (i - 1)
  OBVIOUS
<1>3. src + i - 1 \in D /\ dest + i - 1 \in D
  BY <1>2 DEF Inside
<1>4. src + i - 1 \notin dest .. dest + (i - 1) - 1
  BY DEF Upwards
<1>5. m[src + i - 1] = mem[src + i - 1]
  BY <1>1, <1>3, <1>4
<1> DEFINE r == [m EXCEPT ![dest + i - 1] = m[src + i - 1]]
           t == Moved(mem, dest, src, i)
<1>6. t = [a \in D |-> IF a \in dest .. dest + i - 1 THEN mem[a - dest + src] ELSE mem[a]]
  BY <1>0 DEF Moved
<1>7. r = [a \in D |-> IF a = dest + i - 1 THEN mem[src + i - 1] ELSE m[a]]
  BY <1>1, <1>5
<1> HIDE DEF r, t
<1>8. ASSUME NEW a \in D PROVE r[a] = t[a]
  <2>1. CASE a = dest + i - 1
    <3>1. a \in dest .. dest + i - 1 /\ a - dest + src = src + i - 1
      BY <1>0, <2>1
    <3> QED BY <1>6, <1>7, <2>1, <3>1
  <2>2. CASE a # dest + i - 1
    <3>1. a \in dest .. dest + i - 1 <=> a \in dest .. dest + (i - 1) - 1
      BY <1>0, <2>2
    <3> QED BY <1>1, <1>6, <1>7, <2>2, <3>1
  <2> QED BY <2>1, <2>2
<1>9. r = t
  BY <1>6, <1>7, <1>8
<1> QED BY <1>9 DEF r, t, Stored

\* movb, n times, moves n bytes, unless it stores into what it has still to read.
LEMMA CopyBytesMoves ==
    ASSUME NEW D, NEW mem, IsMemory(mem, D),
           NEW dest \in Int, NEW src \in Int, NEW n \in Nat,
           Inside(dest, n, D), Inside(src, n, D), Upwards(dest, src, n)
    PROVE  CopyBytes(mem, dest, src, n) = Moved(mem, dest, src, n)
<1> DEFINE OneByte(w, i) == [w[i - 1] EXCEPT ![dest + i - 1] = w[i - 1][src + i - 1]]
           Is(w) == w = [i \in 0 .. n |-> IF i = 0 THEN mem ELSE OneByte(w, i)]
           W == CHOOSE w : Is(w)
           g == [i \in 0 .. n |-> Moved(mem, dest, src, i)]
<1>1. \A i \in 1 .. n : i - 1 \in 0 .. n
  OBVIOUS
<1>2. Moved(mem, dest, src, 0) = mem
  BY DEF Moved, IsMemory
<1>3. ASSUME NEW w, NEW i \in 1 .. n, w[i - 1] = Moved(mem, dest, src, i - 1)
      PROVE  OneByte(w, i) = Moved(mem, dest, src, i)
  <2>1. PICK m : m = w[i - 1]
    OBVIOUS
  <2>2. m = Moved(mem, dest, src, i - 1)
    BY <1>3, <2>1
  <2> HIDE DEF Is, W, g, OneByte
  <2>3. PICK k \in Int, p \in Int, q \in Int : k = i - 1 /\ p = dest + i - 1 /\ q = src + i - 1
    OBVIOUS
  <2>4. m = Moved(mem, dest, src, k)
    BY <2>2, <2>3
  <2>5. Stored(m, p, q) = Moved(mem, dest, src, i)
    BY <2>3, <2>4, MovedByte
  <2> QED BY <2>1, <2>3, <2>5 DEF OneByte, Stored
<1>4. Is(g)
  <2>1. \A i \in 1 .. n : g[i - 1] = Moved(mem, dest, src, i - 1)
    BY <1>1
  <2> DEFINE h == [i \in 0 .. n |-> IF i = 0 THEN mem ELSE OneByte(g, i)]
  <2>2. \A i \in 1 .. n : OneByte(g, i) = Moved(mem, dest, src, i)
    <3> HIDE DEF OneByte, g
    <3> QED BY <1>3, <2>1
  <2> HIDE DEF OneByte
  <2>3. \A i \in 0 .. n : h[i] = Moved(mem, dest, src, i)
    BY <1>2, <2>2
  <2>4. h = g
    BY <2>3
  <2> QED BY <2>4
<1>5. Is(W)
  <2> HIDE DEF Is
  <2> QED BY <1>4
<1>6. CopyBytes(mem, dest, src, n) = W[n]
  BY DEF CopyBytes
<1> HIDE DEF W
<1> DEFINE Good == {i \in 0 .. n : W[i] = Moved(mem, dest, src, i)}
<1>7. 0 \in Good
  BY <1>2, <1>5
<1>8. ASSUME NEW i \in 0 .. n - 1, i \in Good PROVE i + 1 \in Good
  <2>1. i + 1 \in 1 .. n /\ i + 1 \in 0 .. n /\ i + 1 # 0 /\ (i + 1) - 1 = i
    OBVIOUS
  <2>2. W[(i + 1) - 1] = Moved(mem, dest, src, (i + 1) - 1)
    BY <1>8, <2>1
  <2>3. OneByte(W, i + 1) = Moved(mem, dest, src, i + 1)
    <3> HIDE DEF OneByte
    <3> QED BY <1>3, <2>1, <2>2
  <2> HIDE DEF OneByte
  <2>4. W[i + 1] = OneByte(W, i + 1)
    BY <1>5, <2>1
  <2> QED BY <2>1, <2>3, <2>4
<1> HIDE DEF Good
<1>9. \A i \in 0 .. n : i \in Good
  BY <1>7, <1>8, LoopInduction
<1> QED BY <1>6, <1>9 DEF Good

\* The same, with names for the pieces.
LEMMA MovedMore ==
    ASSUME NEW D, NEW mem, IsMemory(mem, D),
           NEW dest \in Int, NEW src \in Int, NEW j \in Nat, NEW k \in Nat, NEW n \in Nat, n = j + k,
           Inside(src, n, D), Upwards(dest, src, n),
           NEW m, m = Moved(mem, dest, src, j), NEW p \in Int, p = dest + j, NEW q \in Int, q = src + j
    PROVE  Moved(m, p, q, k) = Moved(mem, dest, src, n)
BY MovedTwice

\* What a move leaves is memory.
LEMMA MovedMemory ==
    ASSUME NEW D, NEW mem, IsMemory(mem, D), NEW dest, NEW src, NEW n
    PROVE  IsMemory(Moved(mem, dest, src, n), D)
BY DEF IsMemory, Moved

\* rep movsl, n / 4 times.
LEMMA CopyDwordsMoves ==
    ASSUME NEW D, NEW mem, IsMemory(mem, D),
           NEW dest \in Int, NEW src \in Int, NEW k \in Nat, NEW n \in Nat, n = 4 * k,
           Inside(src, n, D), Upwards(dest, src, n)
    PROVE  CopyDwords(mem, dest, src, k) = Moved(mem, dest, src, n)
<1> DEFINE Dword(m, i) == [a \in DOMAIN m |-> IF a \in dest + 4 * i .. dest + 4 * i + 3
                                              THEN m[a - dest + src] ELSE m[a]]
           Is(w) == w = [i \in 0 .. k |-> IF i = 0 THEN mem ELSE Dword(w[i - 1], i - 1)]
           W == CHOOSE w : Is(w)
           g == [i \in 0 .. k |-> Moved(mem, dest, src, 4 * i)]
<1>1. \A i \in 1 .. k : i - 1 \in 0 .. k /\ i - 1 \in 0 .. k - 1 /\ (i - 1) + 1 = i
  OBVIOUS
<1>2. Moved(mem, dest, src, 4 * 0) = mem
  BY DEF Moved, IsMemory
<1>3. ASSUME NEW i \in 0 .. k - 1, NEW m, m = Moved(mem, dest, src, 4 * i)
      PROVE  Dword(m, i) = Moved(mem, dest, src, 4 * (i + 1))
  <2>1. PICK j \in Nat, l \in Nat, h \in Nat, p \in Int, q \in Int :
            j = 4 * i /\ l = 4 * (i + 1) /\ h = 4 /\ p = dest + j /\ q = src + j
    OBVIOUS
  <2>2. l = j + h /\ Inside(src, l, D) /\ Upwards(dest, src, l)
    <3>1. l <= n
      BY <2>1
    <3> QED BY <2>1, <3>1 DEF Inside, Upwards
  <2>3. m = Moved(mem, dest, src, j)
    BY <1>3, <2>1
  <2> HIDE DEF Dword, Is, W, g
  <2>4. Moved(m, p, q, h) = Moved(mem, dest, src, l)
    BY <2>1, <2>2, <2>3, MovedMore
  <2>5. IsMemory(m, D)
    BY <1>3, MovedMemory
  <2>6. Dword(m, i) = Moved(m, p, q, h)
    <3>1. DOMAIN m = D /\ D \in SUBSET Int
      BY <2>5 DEF IsMemory
    <3>2. ASSUME NEW a \in D
          PROVE  /\ a \in dest + 4 * i .. dest + 4 * i + 3 <=> a \in p .. p + h - 1
                 /\ a - p + q = a - dest + src
      BY <2>1, <3>1
    <3> QED BY <3>1, <3>2 DEF Dword, Moved
  <2> QED BY <2>1, <2>4, <2>6
<1>4. Is(g)
  <2> DEFINE h == [i \in 0 .. k |-> IF i = 0 THEN mem ELSE Dword(g[i - 1], i - 1)]
  <2>1. \A i \in 1 .. k : g[i - 1] = Moved(mem, dest, src, 4 * (i - 1))
    BY <1>1
  <2>2. \A i \in 1 .. k : Dword(g[i - 1], i - 1) = Moved(mem, dest, src, 4 * i)
    <3> HIDE DEF Dword, g
    <3> TAKE i \in 1 .. k
    <3>1. Dword(g[i - 1], i - 1) = Moved(mem, dest, src, 4 * ((i - 1) + 1))
      BY <1>1, <1>3, <2>1
    <3> QED BY <1>1, <3>1
  <2> HIDE DEF Dword
  <2>3. \A i \in 0 .. k : h[i] = Moved(mem, dest, src, 4 * i)
    BY <1>2, <2>2
  <2>4. h = g
    BY <2>3
  <2> QED BY <2>4
<1>5. Is(W)
  <2> HIDE DEF Is
  <2> QED BY <1>4
<1>6. CopyDwords(mem, dest, src, k) = W[k]
  BY DEF CopyDwords
<1> HIDE DEF W
<1> DEFINE Good == {i \in 0 .. k : W[i] = Moved(mem, dest, src, 4 * i)}
<1>7. 0 \in Good
  BY <1>2, <1>5
<1>8. ASSUME NEW i \in 0 .. k - 1, i \in Good PROVE i + 1 \in Good
  <2>1. i + 1 \in 1 .. k /\ i + 1 \in 0 .. k /\ i + 1 # 0 /\ (i + 1) - 1 = i
    OBVIOUS
  <2> HIDE DEF Dword
  <2>2. W[i + 1] = Dword(W[i], i)
    <3>1. W[i + 1] = Dword(W[(i + 1) - 1], (i + 1) - 1)
      BY <1>5, <2>1
    <3> QED BY <2>1, <3>1
  <2>3. Dword(W[i], i) = Moved(mem, dest, src, 4 * (i + 1))
    BY <1>3, <1>8
  <2> QED BY <2>1, <2>2, <2>3
<1> HIDE DEF Good
<1>9. \A i \in 0 .. k : i \in Good
  BY <1>7, <1>8, LoopInduction
<1> QED BY <1>6, <1>9 DEF Good

\* How an area is split.
LEMMA Splitting ==
    ASSUME NEW a \in Nat, NEW n \in Nat
    PROVE  \E h \in Nat, d \in Nat, r \in Nat :
              /\ h = Unaligned(a, n) /\ d = (n - h) \div 4 /\ r = (n - h) % 4
              /\ n = h + 4 * d + r
<1>1. Unaligned(a, n) \in 0 .. n
  <2>1. PICK u \in Nat : u = (4 - (a % 4)) % 4
    OBVIOUS
  <2> QED BY <2>1 DEF Unaligned, Lesser
<1>2. PICK h \in 0 .. n : h = Unaligned(a, n)
  BY <1>1
<1>3. PICK x \in Nat : x = n - h
  OBVIOUS
<1>4. x \div 4 \in Nat /\ x % 4 \in Nat /\ x = 4 * (x \div 4) + (x % 4)
  OBVIOUS
<1>5. n = h + 4 * (x \div 4) + (x % 4)
  BY <1>3, <1>4
<1> QED BY <1>2, <1>3, <1>4, <1>5

\* memcpy does what it says for every alignment.
LEMMA MemcpyMoves ==
    ASSUME NEW D, NEW mem, IsMemory(mem, D),
           NEW dest \in Nat, NEW src \in Nat, NEW n \in Nat,
           Inside(dest, n, D), Inside(src, n, D), Upwards(dest, src, n)
    PROVE  memcpy(mem, dest, src, n) = Moved(mem, dest, src, n)
<1>1. PICK h \in Nat, d \in Nat, r \in Nat :
          /\ h = Unaligned(dest, n) /\ d = (n - h) \div 4 /\ r = (n - h) % 4
          /\ n = h + 4 * d + r
  BY Splitting
<1>2. PICK j \in Nat, e \in Nat, p \in Int, q \in Int, s \in Int, t \in Int :
          /\ j = h + 4 * d /\ e = 4 * d
          /\ p = dest + h /\ q = src + h /\ s = dest + j /\ t = src + j
  OBVIOUS
<1>0. n = h + 4 * d + r
  BY <1>1
<1>50. j = h + e /\ n = j + r /\ h <= n /\ j <= n /\ s = p + e /\ t = q + e
  BY <1>0, <1>2
<1>51. p = dest + h /\ q = src + h /\ s = dest + j /\ t = src + j
  BY <1>2
<1> DEFINE first == Moved(mem, dest, src, h)
           both  == Moved(mem, dest, src, j)
<1>3. IsMemory(first, D) /\ IsMemory(both, D)
  BY MovedMemory
<1>4. /\ Inside(dest, h, D) /\ Inside(src, h, D) /\ Upwards(dest, src, h)
      /\ Inside(src, j, D) /\ Upwards(dest, src, j)
      /\ Inside(q, e, D) /\ Upwards(p, q, e)
      /\ Inside(s, r, D) /\ Inside(t, r, D) /\ Upwards(s, t, r)
  <2>1. h <= n /\ j <= n /\ q + e = src + j /\ s + r = dest + n /\ t + r = src + n
    BY <1>50, <1>51
  <2>2. /\ Inside(dest, h, D) /\ Inside(src, h, D) /\ Upwards(dest, src, h)
        /\ Inside(src, j, D) /\ Upwards(dest, src, j)
    BY <1>50, <1>51, <2>1 DEF Inside, Upwards
  <2>3. Upwards(p, q, e) /\ Upwards(s, t, r)
    BY <1>50, <1>51, <2>1 DEF Upwards
  <2>4. Inside(q, e, D)
    <3>1. ASSUME NEW i \in 0 .. e - 1 PROVE q + i \in D
      <4>1. h + i \in 0 .. n - 1 /\ q + i = src + (h + i)
        BY <1>50, <1>51
      <4> QED BY <4>1 DEF Inside
    <3> QED BY <3>1 DEF Inside
  <2>5. Inside(s, r, D) /\ Inside(t, r, D)
    <3>1. ASSUME NEW i \in 0 .. r - 1 PROVE s + i \in D /\ t + i \in D
      <4>1. j + i \in 0 .. n - 1 /\ s + i = dest + (j + i) /\ t + i = src + (j + i)
        BY <1>50, <1>51
      <4> QED BY <4>1 DEF Inside
    <3> QED BY <3>1 DEF Inside
  <2> QED BY <2>2, <2>3, <2>4, <2>5
<1>5. first = CopyBytes(mem, dest, src, h)
  BY <1>4, CopyBytesMoves
<1>6. PICK m : m = first
  OBVIOUS
<1>7. PICK l : l = both
  OBVIOUS
<1> HIDE DEF first, both
<1>8. CopyDwords(m, p, q, d) = Moved(m, p, q, e)
  BY <1>2, <1>3, <1>4, <1>6, CopyDwordsMoves
<1>9. Moved(m, p, q, e) = Moved(mem, dest, src, j)
  BY <1>50, <1>51, <1>4, <1>6, MovedMore DEF first
<1>10. CopyBytes(l, s, t, r) = Moved(l, s, t, r)
  BY <1>2, <1>3, <1>4, <1>7, CopyBytesMoves
<1>11. Moved(l, s, t, r) = Moved(mem, dest, src, n)
  <2>1. n = j + r
    BY <1>50
  <2> QED BY <1>51, <1>4, <1>7, <2>1, MovedMore DEF both
<1>12. memcpy(mem, dest, src, n) = CopyBytes(CopyDwords(CopyBytes(mem, dest, src, h), p, q, d), s, t, r)
  <2>1. dest + h + 4 * d = s /\ src + h + 4 * d = t /\ dest + h = p /\ src + h = q
    BY <1>2
  <2>2. Unaligned(dest, n) = h /\ (n - h) \div 4 = d /\ (n - h) % 4 = r
    BY <1>1
  <2>3. memcpy(mem, dest, src, n) = CopyBytes(CopyDwords(CopyBytes(mem, dest, src, h), dest + h, src + h, d),
                                              dest + h + 4 * d, src + h + 4 * d, r)
    BY <2>2, Zenon DEF memcpy
  <2> QED BY <2>1, <2>3, Zenon
<1> QED BY <1>5, <1>6, <1>7, <1>8, <1>9, <1>10, <1>11, <1>12 DEF both

\* One movb downwards continues a move at its lower end.
LEMMA MovedDown ==
    ASSUME NEW D, NEW mem, IsMemory(mem, D),
           NEW p \in Int, NEW q \in Int, q < p, p \in D, q \in D, NEW k \in Nat,
           NEW p1 \in Int, p1 = p + 1, NEW q1 \in Int, q1 = q + 1, NEW k1 \in Nat, k1 = k + 1,
           NEW m, m = Moved(mem, p1, q1, k)
    PROVE  Stored(m, p, q) = Moved(mem, p, q, k1)
<1>0. D \in SUBSET Int /\ DOMAIN mem = D
  BY DEF IsMemory
<1>1. m = [a \in D |-> IF a \in p + 1 .. p + 1 + k - 1 THEN mem[a - (p + 1) + (q + 1)] ELSE mem[a]]
  BY <1>0 DEF Moved
<1>2. m[q] = mem[q]
  BY <1>1
<1> DEFINE r == Stored(m, p, q)
           t == Moved(mem, p, q, k1)
<1>3. r = [a \in D |-> IF a = p THEN mem[q] ELSE m[a]]
  BY <1>1, <1>2 DEF Stored
<1>4. t = [a \in D |-> IF a \in p .. p + k1 - 1 THEN mem[a - p + q] ELSE mem[a]]
  BY <1>0 DEF Moved
<1> HIDE DEF r, t
<1>5. ASSUME NEW a \in D PROVE r[a] = t[a]
  <2>1. CASE a = p
    <3>1. a \in p .. p + k1 - 1 /\ a - p + q = q
      BY <2>1
    <3> QED BY <1>3, <1>4, <2>1, <3>1
  <2>2. CASE a # p
    <3>1. /\ a \in p .. p + k1 - 1 <=> a \in p + 1 .. p + 1 + k - 1
          /\ a - (p + 1) + (q + 1) = a - p + q
      BY <1>0, <2>2
    <3>2. r[a] = IF a \in p + 1 .. p + 1 + k - 1 THEN mem[a - (p + 1) + (q + 1)] ELSE mem[a]
      BY <1>1, <1>3, <2>2
    <3> QED BY <1>4, <3>1, <3>2
  <2> QED BY <2>1, <2>2
<1>6. r = t
  BY <1>3, <1>4, <1>5
<1> QED BY <1>6 DEF r, t

\* memmove moves whatever the overlap.
LEMMA MemmoveMoves ==
    ASSUME NEW D, NEW mem, IsMemory(mem, D),
           NEW dest \in Int, NEW src \in Int, NEW n \in Nat,
           Inside(dest, n, D), Inside(src, n, D)
    PROVE  memmove(mem, dest, src, n) = Moved(mem, dest, src, n)
<1>1. CASE src >= dest
  <2>1. Upwards(dest, src, n)
    BY <1>1 DEF Upwards
  <2>2. CopyBytes(mem, dest, src, n) = Moved(mem, dest, src, n)
    BY <2>1, CopyBytesMoves
  <2> QED BY <1>1, <2>2 DEF memmove
<1>2. CASE ~(src >= dest)
  <2> DEFINE Down(w, i) == [w[i - 1] EXCEPT ![dest + n - i] = w[i - 1][src + n - i]]
             Is(w) == w = [i \in 0 .. n |-> IF i = 0 THEN mem ELSE Down(w, i)]
             W == CHOOSE w : Is(w)
             LastBytes(i) == Moved(mem, dest + n - i, src + n - i, i)
             g == [i \in 0 .. n |-> LastBytes(i)]
  <2>1. LastBytes(0) = mem
    BY DEF Moved, IsMemory
  <2>2. ASSUME NEW w, NEW i \in 1 .. n, w[i - 1] = LastBytes(i - 1) PROVE Down(w, i) = LastBytes(i)
    <3>1. PICK p \in Int, q \in Int, p1 \in Int, q1 \in Int, k \in Nat :
              /\ p = dest + n - i /\ q = src + n - i /\ p1 = dest + n - (i - 1) /\ q1 = src + n - (i - 1)
              /\ k = i - 1
      OBVIOUS
    <3>2. p1 = p + 1 /\ q1 = q + 1 /\ i = k + 1 /\ q < p /\ i \in Nat
      BY <1>2, <3>1
    <3>3. p \in D /\ q \in D
      <4>1. n - i \in 0 .. n - 1 /\ dest + (n - i) = p /\ src + (n - i) = q
        BY <3>1
      <4> QED BY <4>1 DEF Inside
    <3>4. PICK m : m = w[i - 1]
      OBVIOUS
    <3>5. m = Moved(mem, p1, q1, k)
      BY <2>2, <3>1, <3>4
    <3> HIDE DEF Down, Is, W, LastBytes, g
    <3>6. Stored(m, p, q) = Moved(mem, p, q, i)
      BY <3>2, <3>3, <3>5, MovedDown
    <3> QED BY <3>1, <3>4, <3>6 DEF Down, Stored, LastBytes
  <2>3. Is(g)
    <3>1. \A i \in 1 .. n : i - 1 \in 0 .. n
      OBVIOUS
    <3>2. \A i \in 1 .. n : g[i - 1] = LastBytes(i - 1)
      <4> HIDE DEF LastBytes
      <4> QED BY <3>1
    <3> HIDE DEF Down, LastBytes
    <3> DEFINE h == [i \in 0 .. n |-> IF i = 0 THEN mem ELSE Down(g, i)]
    <3>3. \A i \in 1 .. n : Down(g, i) = LastBytes(i)
      <4> HIDE DEF g
      <4> QED BY <2>2, <3>2
    <3>4. \A i \in 0 .. n : h[i] = LastBytes(i)
      BY <2>1, <3>3
    <3>5. h = g
      BY <3>4
    <3> QED BY <3>5
  <2>4. Is(W)
    <3> HIDE DEF Is
    <3> QED BY <2>3
  <2>5. memmove(mem, dest, src, n) = W[n]
    BY <1>2 DEF memmove
  <2> HIDE DEF W
  <2> DEFINE Good == {i \in 0 .. n : W[i] = LastBytes(i)}
  <2>6. 0 \in Good
    <3> HIDE DEF LastBytes, Down
    <3> QED BY <2>1, <2>4
  <2>7. ASSUME NEW i \in 0 .. n - 1, i \in Good PROVE i + 1 \in Good
    <3>1. i + 1 \in 1 .. n /\ i + 1 \in 0 .. n /\ i + 1 # 0 /\ (i + 1) - 1 = i
      OBVIOUS
    <3> HIDE DEF LastBytes, Down
    <3>2. W[(i + 1) - 1] = LastBytes((i + 1) - 1)
      BY <2>7, <3>1
    <3>3. Down(W, i + 1) = LastBytes(i + 1)
      BY <2>2, <3>1, <3>2
    <3>4. W[i + 1] = Down(W, i + 1)
      BY <2>4, <3>1
    <3> QED BY <3>1, <3>3, <3>4
  <2> HIDE DEF Good
  <2>8. \A i \in 0 .. n : i \in Good
    BY <2>6, <2>7, LoopInduction
  <2>9. W[n] = LastBytes(n)
    <3> HIDE DEF LastBytes
    <3> QED BY <2>8 DEF Good
  <2>10. dest + n - n = dest /\ src + n - n = src
    OBVIOUS
  <2> QED BY <2>5, <2>9, <2>10
<1> QED BY <1>1, <1>2

\* memset fills for every alignment.
LEMMA MemsetFills ==
    ASSUME NEW D, NEW mem, IsMemory(mem, D), NEW s \in Nat, NEW n \in Nat, NEW c
    PROVE  memset(mem, s, c, n) = Fill(mem, s, n, c)
<1>1. PICK h \in Nat, d \in Nat, r \in Nat :
          /\ h = Unaligned(s, n) /\ d = (n - h) \div 4 /\ r = (n - h) % 4
          /\ n = h + 4 * d + r
  BY Splitting
<1>2. Unaligned(s, n) = h /\ (n - h) \div 4 = d /\ (n - h) % 4 = r
  BY <1>1
<1>3. memset(mem, s, c, n) = Fill(Fill(Fill(mem, s, h, c), s + h, 4 * d, c), s + h + 4 * d, r, c)
  BY <1>2, Zenon DEF memset
<1>4. n = h + 4 * d + r /\ D \in SUBSET Int /\ DOMAIN mem = D
  BY <1>1 DEF IsMemory
<1>5. PICK e \in Nat : e = 4 * d
  OBVIOUS
<1>6. ASSUME NEW a \in D
      PROVE  a \in s .. s + n - 1 <=> \/ a \in s .. s + h - 1
                                      \/ a \in s + h .. s + h + e - 1
                                      \/ a \in s + h + e .. s + h + e + r - 1
  BY <1>4, <1>5
<1>7. Fill(Fill(Fill(mem, s, h, c), s + h, e, c), s + h + e, r, c) = Fill(mem, s, n, c)
  BY <1>4, <1>6 DEF Fill
<1> QED BY <1>3, <1>5, <1>7

\* So do the routines for larger units, of size bytes that are all c.
LEMMA FillWithFills ==
    ASSUME NEW D, NEW mem, IsMemory(mem, D), NEW s \in Nat, NEW n \in Nat, NEW size \in Nat \ {0},
           NEW c, NEW w, \A b \in 0 .. size - 1 : w[b] = c, NEW m, m = size * n
    PROVE  FillWith(mem, s, w, size, n) = Fill(mem, s, m, c)
<1>1. DOMAIN mem = D /\ D \in SUBSET Int
  BY DEF IsMemory
<1>2. ASSUME NEW a \in D PROVE w[(a - s) % size] = c
  <2>1. a - s \in Int
    BY <1>1
  <2>2. (a - s) % size \in 0 .. size - 1
    BY <2>1
  <2> QED BY <2>2
<1> QED BY <1>1, <1>2 DEF FillWith, Fill

\* The memory routines do what they are for, whatever the size of the memory.
LEMMA MemoryWorks == MemoryCorrect
<1>1. IsMemory(Tags, Cells) /\ Cells \in SUBSET Nat
  BY LibCellsAssumption DEF Tags, Cells, IsMemory
<1>2. SUFFICES ASSUME NEW dest \in Cells, NEW n \in Cells, dest + n <= LibCells
      PROVE  /\ memset(Tags, dest, 0, n) = Fill(Tags, dest, n, 0)
             /\ memset_word(Tags, dest, [b \in 0 .. 1 |-> 0], n) = memset(Tags, dest, 0, 2 * n)
             /\ memset_dword(Tags, dest, [b \in 0 .. 3 |-> 0], n) = memset(Tags, dest, 0, 4 * n)
             /\ \A src \in Cells : src + n <= LibCells =>
                  /\ memmove(Tags, dest, src, n) = Moved(Tags, dest, src, n)
                  /\ (dest <= src \/ src + n <= dest) =>
                       memcpy(Tags, dest, src, n) = Moved(Tags, dest, src, n)
  BY DEF MemoryCorrect
<1>3. dest \in Nat /\ n \in Nat /\ dest \in Int
  BY <1>1
<1>4. memset(Tags, dest, 0, n) = Fill(Tags, dest, n, 0)
  BY <1>1, <1>3, MemsetFills
<1>5. ASSUME NEW src \in Cells, src + n <= LibCells
      PROVE  /\ memmove(Tags, dest, src, n) = Moved(Tags, dest, src, n)
             /\ (dest <= src \/ src + n <= dest) =>
                  memcpy(Tags, dest, src, n) = Moved(Tags, dest, src, n)
  <2>1. src \in Nat /\ src \in Int
    BY <1>1
  <2>2. Inside(dest, n, Cells) /\ Inside(src, n, Cells)
    BY <1>2, <1>3, <1>5, <2>1, LibCellsAssumption DEF Inside, Cells
  <2>3. (dest <= src \/ src + n <= dest) <=> Upwards(dest, src, n)
    BY DEF Upwards
  <2> QED BY <1>1, <1>3, <2>1, <2>2, <2>3, MemmoveMoves, MemcpyMoves
<1>6. memset_word(Tags, dest, [b \in 0 .. 1 |-> 0], n) = memset(Tags, dest, 0, 2 * n)
  <2>1. PICK w : w = [b \in 0 .. 1 |-> 0]
    OBVIOUS
  <2>2. PICK size \in Nat \ {0}, m \in Nat : size = 2 /\ m = 2 * n
    BY <1>3
  <2>3. m = size * n /\ \A b \in 0 .. size - 1 : w[b] = 0
    BY <2>1, <2>2
  <2>4. FillWith(Tags, dest, w, size, n) = Fill(Tags, dest, m, 0)
    BY <1>1, <1>3, <2>3, FillWithFills
  <2>5. memset(Tags, dest, 0, m) = Fill(Tags, dest, m, 0)
    BY <1>1, <1>3, MemsetFills
  <2> QED BY <2>1, <2>2, <2>4, <2>5, Zenon DEF memset_word
<1>7. memset_dword(Tags, dest, [b \in 0 .. 3 |-> 0], n) = memset(Tags, dest, 0, 4 * n)
  <2>1. PICK w : w = [b \in 0 .. 3 |-> 0]
    OBVIOUS
  <2>2. PICK size \in Nat \ {0}, m \in Nat : size = 4 /\ m = 4 * n
    BY <1>3
  <2>3. m = size * n /\ \A b \in 0 .. size - 1 : w[b] = 0
    BY <2>1, <2>2
  <2>4. FillWith(Tags, dest, w, size, n) = Fill(Tags, dest, m, 0)
    BY <1>1, <1>3, <2>3, FillWithFills
  <2>5. memset(Tags, dest, 0, m) = Fill(Tags, dest, m, 0)
    BY <1>1, <1>3, MemsetFills
  <2> QED BY <2>1, <2>2, <2>4, <2>5, Zenon DEF memset_dword
<1> QED BY <1>4, <1>5, <1>6, <1>7

-----------------------------------------------------------------------------
(* Strings.                                                                *)

\* Characters 0 .. N, the last of them NUL.
IsString(s, N) == /\ N \in Nat /\ s = [i \in 0 .. N |-> s[i]] /\ DOMAIN s = 0 .. N
                  /\ \A i \in 0 .. N : s[i] \in Nat
                  /\ s[N] = NUL

\* k is the place of the first NUL.
EndsAt(s, k) == k \in DOMAIN s /\ s[k] = NUL /\ \A i \in 0 .. k - 1 : s[i] # NUL

\* strlen finds the end of a string.
LEMMA StrlenEnds ==
    ASSUME NEW s, NEW N, IsString(s, N)
    PROVE  strlen(s) \in 0 .. N /\ EndsAt(s, strlen(s))
<1> DEFINE T == {i \in 0 .. N : s[i] = NUL}
<1>1. T \in SUBSET Nat /\ T # {}
  BY DEF IsString
<1>2. PICK k \in T : \A i \in T : k <= i
  <2> HIDE DEF T
  <2> QED BY <1>1, LeastElement
<1>3. k \in DOMAIN s /\ s[k] = NUL /\ \A i \in 0 .. k - 1 : s[i] # NUL
  BY <1>2 DEF IsString
<1>4. EndsAt(s, strlen(s))
  BY <1>3 DEF strlen, EndsAt
<1> QED BY <1>4 DEF EndsAt, IsString

\* There is one end.
LEMMA EndUnique ==
    ASSUME NEW s, DOMAIN s \in SUBSET Nat, NEW k, EndsAt(s, k)
    PROVE  strlen(s) = k
<1> DEFINE l == strlen(s)
<1>1. EndsAt(s, l)
  BY DEF strlen, EndsAt
<1> HIDE DEF l
<1>2. l \in Nat /\ k \in Nat
  BY <1>1 DEF EndsAt
<1>3. l = k
  BY <1>1, <1>2 DEF EndsAt
<1> QED BY <1>3 DEF l

\* s and t agree up to the end of s, among the first n characters from i on.
Agree(s, t, i, n) == \A k \in i .. n - 1 : (\A j \in i .. k - 1 : s[j] # NUL) => s[k] = t[k]

\* w[i] is what comparing from the i-th character on gives.
Compares(w, s, t, n) ==
    /\ w[n] = 0
    /\ \A i \in 0 .. n - 1 : w[i] = IF s[i] # t[i] THEN s[i] - t[i] ELSE IF s[i] = NUL THEN 0 ELSE w[i + 1]

\* n characters of s and t are numbers.
Readable(s, t, n) == n \in Nat /\ \A i \in 0 .. n - 1 : s[i] \in Nat /\ t[i] \in Nat

\* A comparison is 0 for what agrees.
LEMMA ComparesZero ==
    ASSUME NEW s, NEW t, NEW n, Readable(s, t, n), NEW w, Compares(w, s, t, n)
    PROVE  w[0] = 0 <=> Agree(s, t, 0, n)
<1> DEFINE Good == {m \in 0 .. n : w[n - m] = 0 <=> Agree(s, t, n - m, n)}
<1>0. n \in Nat
  BY DEF Readable
<1>1. 0 \in Good
  <2>1. n - 0 = n /\ Agree(s, t, n, n) /\ 0 \in 0 .. n
    BY <1>0 DEF Agree
  <2> QED BY <2>1 DEF Compares
<1>2. ASSUME NEW m \in 0 .. n - 1, m \in Good PROVE m + 1 \in Good
  <2>1. PICK i \in 0 .. n - 1 : i = n - (m + 1)
    BY <1>0
  <2>2. i + 1 = n - m /\ i \in Int /\ m + 1 \in 0 .. n
    BY <1>0, <2>1
  <2>3. w[i + 1] = 0 <=> Agree(s, t, i + 1, n)
    BY <1>2, <2>2
  <2>4. w[i] = IF s[i] # t[i] THEN s[i] - t[i] ELSE IF s[i] = NUL THEN 0 ELSE w[i + 1]
    BY DEF Compares
  <2>5. s[i] \in Nat /\ t[i] \in Nat
    BY DEF Readable
  <2>6. w[i] = 0 <=> Agree(s, t, i, n)
    <3>1. CASE s[i] # t[i]
      <4>1. w[i] # 0
        BY <2>4, <2>5, <3>1
      <4>2. ~Agree(s, t, i, n)
        <5>1. i \in i .. n - 1 /\ \A j \in i .. i - 1 : s[j] # NUL
          BY <1>0
        <5> QED BY <3>1, <5>1 DEF Agree
      <4> QED BY <4>1, <4>2
    <3>2. CASE s[i] = t[i] /\ s[i] = NUL
      <4>1. w[i] = 0
        BY <2>4, <3>2
      <4>2. ASSUME NEW k \in i .. n - 1, \A j \in i .. k - 1 : s[j] # NUL PROVE s[k] = t[k]
        <5>1. k = i
          BY <3>2, <4>2
        <5> QED BY <3>2, <5>1
      <4> QED BY <4>1, <4>2 DEF Agree
    <3>3. CASE s[i] = t[i] /\ s[i] # NUL
      <4>1. w[i] = w[i + 1]
        BY <2>4, <3>3
      <4>2. ASSUME Agree(s, t, i + 1, n), NEW k \in i .. n - 1, \A j \in i .. k - 1 : s[j] # NUL
            PROVE  s[k] = t[k]
        <5>1. CASE k = i
          BY <3>3, <5>1
        <5>2. CASE k # i
          <6>1. k \in i + 1 .. n - 1 /\ \A j \in i + 1 .. k - 1 : j \in i .. k - 1
            BY <1>0, <5>2
          <6> QED BY <4>2, <6>1 DEF Agree
        <5> QED BY <5>1, <5>2
      <4>3. ASSUME Agree(s, t, i, n), NEW k \in i + 1 .. n - 1, \A j \in i + 1 .. k - 1 : s[j] # NUL
            PROVE  s[k] = t[k]
        <5>1. k \in i .. n - 1 /\ \A j \in i .. k - 1 : j = i \/ j \in i + 1 .. k - 1
          BY <1>0
        <5>2. \A j \in i .. k - 1 : s[j] # NUL
          BY <3>3, <4>3, <5>1
        <5> QED BY <4>3, <5>1, <5>2 DEF Agree
      <4>4. Agree(s, t, i, n) <=> Agree(s, t, i + 1, n)
        BY <4>2, <4>3 DEF Agree
      <4> QED BY <2>3, <4>1, <4>4
    <3> QED BY <3>1, <3>2, <3>3
  <2> QED BY <2>1, <2>2, <2>6
<1> HIDE DEF Good
<1>3. \A m \in 0 .. n : m \in Good
  BY <1>0, <1>1, <1>2, LoopInduction
<1>4. n \in Good /\ n - n = 0
  BY <1>0, <1>3
<1> QED BY <1>4 DEF Good

\* A comparison of what first differs at k gives the difference there.
LEMMA ComparesSign ==
    ASSUME NEW s, NEW t, NEW n, Readable(s, t, n), NEW w, Compares(w, s, t, n),
           NEW k \in 0 .. n - 1, DifferAt(s, t, k)
    PROVE  SignOf(w[0], s, t, k)
<1> DEFINE Good == {m \in 0 .. k : w[0] = w[m]}
<1>0. n \in Nat /\ k \in Nat
  BY DEF Readable
<1>1. 0 \in Good
  BY <1>0
<1>2. ASSUME NEW m \in 0 .. k - 1, m \in Good PROVE m + 1 \in Good
  <2>1. m \in 0 .. n - 1 /\ m + 1 \in 0 .. k
    BY <1>0
  <2>2. s[m] = t[m] /\ s[m] # NUL
    BY DEF DifferAt
  <2>3. w[m] = w[m + 1]
    BY <2>1, <2>2 DEF Compares
  <2> QED BY <1>2, <2>1, <2>3
<1> HIDE DEF Good
<1>3. \A m \in 0 .. k : m \in Good
  BY <1>0, <1>1, <1>2, LoopInduction
<1>4. w[0] = w[k]
  BY <1>0, <1>3 DEF Good
<1>5. s[k] # t[k] /\ s[k] \in Nat /\ t[k] \in Nat
  BY DEF DifferAt, Readable
<1>6. w[k] = s[k] - t[k]
  BY <1>5 DEF Compares
<1> QED BY <1>4, <1>5, <1>6 DEF SignOf

\* There is a comparison.
LEMMA ComparisonExists ==
    ASSUME NEW s, NEW t, NEW n, Readable(s, t, n)
    PROVE  \E w : w \in [0 .. n -> Int] /\ Compares(w, s, t, n)
<1>0. n \in Nat
  BY DEF Readable
<1> DEFINE Step(i, v) == IF s[i] # t[i] THEN s[i] - t[i] ELSE IF s[i] = NUL THEN 0 ELSE v
           F == [m \in 1 .. n |-> [v \in Int |-> Step(n - m, v)]]
<1>1. ASSUME NEW i \in 0 .. n - 1, NEW v \in Int PROVE Step(i, v) \in Int
  <2>1. s[i] \in Nat /\ t[i] \in Nat
    BY DEF Readable
  <2> QED BY <2>1
<1>2. \A m \in 1 .. n : n - m \in 0 .. n - 1
  BY <1>0
<1>3. F \in [1 .. n -> [Int -> Int]]
  <2> HIDE DEF Step
  <2> QED BY <1>1, <1>2
<1>4. PICK g : IsLoop(g, Int, 0, n, F)
  <2> HIDE DEF F
  <2>1. 0 \in Int
    OBVIOUS
  <2> QED BY <1>0, <1>3, <2>1, LoopExists
<1>5. g \in [0 .. n -> Int] /\ g[0] = 0 /\ \A m \in 1 .. n : g[m] = F[m][g[m - 1]]
  BY <1>4 DEF IsLoop
<1> DEFINE w == [i \in 0 .. n |-> g[n - i]]
<1>6. \A i \in 0 .. n : n - i \in 0 .. n
  BY <1>0
<1>7. w \in [0 .. n -> Int]
  BY <1>5, <1>6
<1>8. w[n] = 0
  <2>1. n - n = 0 /\ n \in 0 .. n
    BY <1>0
  <2> QED BY <1>5, <2>1
<1>9. ASSUME NEW i \in 0 .. n - 1 PROVE w[i] = Step(i, w[i + 1])
  <2>1. PICK m \in 1 .. n : m = n - i
    BY <1>0
  <2>2. n - m = i /\ m - 1 = n - (i + 1) /\ m - 1 \in 0 .. n /\ i \in 0 .. n /\ i + 1 \in 0 .. n
    BY <1>0, <2>1
  <2> HIDE DEF Step
  <2>3. w[i] = g[m] /\ w[i + 1] = g[m - 1]
    BY <2>1, <2>2
  <2>4. g[m] = Step(n - m, g[m - 1])
    <3>1. g[m] = F[m][g[m - 1]] /\ g[m - 1] \in Int
      BY <1>5, <2>2
    <3> QED BY <3>1
  <2> HIDE DEF w
  <2> QED BY <2>2, <2>3, <2>4
<1> HIDE DEF w
<1>10. Compares(w, s, t, n)
  BY <1>8, <1>9 DEF Compares
<1> QED BY <1>7, <1>10

\* r is what a comparison of s and t gives.
Result(r, s, t, n) == \E w : Compares(w, s, t, n) /\ r = w[0]

\* strncmp compares.
LEMMA StrncmpCompares ==
    ASSUME NEW s, NEW t, NEW n, Readable(s, t, n)
    PROVE  Result(strncmp(s, t, n), s, t, n)
<1>0. n \in Nat
  BY DEF Readable
<1> DEFINE Step(w, i) == IF i = n THEN 0
                         ELSE IF s[i] # t[i] \/ s[i] = NUL THEN s[i] - t[i]
                         ELSE w[i + 1]
           Is(w) == w = [i \in 0 .. n |-> Step(w, i)]
           W == CHOOSE w : Is(w)
<1>1. PICK g : g \in [0 .. n -> Int] /\ Compares(g, s, t, n)
  BY ComparisonExists
<1>2. ASSUME NEW w, NEW i \in 0 .. n - 1
      PROVE  Step(w, i) = IF s[i] # t[i] THEN s[i] - t[i] ELSE IF s[i] = NUL THEN 0 ELSE w[i + 1]
  <2>1. s[i] \in Nat /\ t[i] \in Nat /\ i # n
    BY <1>0 DEF Readable
  <2> QED BY <2>1
<1>3. Is(g)
  <2>1. \A i \in 0 .. n : g[i] = Step(g, i)
    <3> TAKE i \in 0 .. n
    <3>1. CASE i = n
      BY <1>1, <3>1 DEF Compares
    <3>2. CASE i # n
      <4>1. i \in 0 .. n - 1
        BY <1>0, <3>2
      <4>2. g[i] = IF s[i] # t[i] THEN s[i] - t[i] ELSE IF s[i] = NUL THEN 0 ELSE g[i + 1]
        BY <1>1, <4>1 DEF Compares
      <4>3. Step(g, i) = IF s[i] # t[i] THEN s[i] - t[i] ELSE IF s[i] = NUL THEN 0 ELSE g[i + 1]
        BY <1>2, <4>1
      <4> QED BY <4>2, <4>3
    <3> QED BY <3>1, <3>2
  <2> HIDE DEF Step
  <2>2. g = [i \in 0 .. n |-> g[i]]
    BY <1>1
  <2> QED BY <2>1, <2>2
<1>4. Is(W)
  <2> HIDE DEF Is
  <2> QED BY <1>3
<1>5. strncmp(s, t, n) = W[0]
  BY DEF strncmp
<1> HIDE DEF W
<1>6. Compares(W, s, t, n)
  <2>1. \A i \in 0 .. n : W[i] = Step(W, i)
    <3> HIDE DEF Step
    <3> QED BY <1>4
  <2>2. W[n] = 0
    BY <1>0, <2>1
  <2> HIDE DEF Step
  <2>3. \A i \in 0 .. n - 1 : i \in 0 .. n
    BY <1>0
  <2> QED BY <1>2, <2>1, <2>2, <2>3 DEF Compares
<1> QED BY <1>5, <1>6 DEF Result

\* So does the copy in user programs.
LEMMA UserStrncmpCompares ==
    ASSUME NEW s, NEW t, NEW n, Readable(s, t, n)
    PROVE  Result(ece391_strncmp(s, t, n), s, t, n)
<1>0. n \in Nat
  BY DEF Readable
<1>1. CASE n = 0
  <2>1. PICK w : w \in [0 .. n -> Int] /\ Compares(w, s, t, n)
    BY ComparisonExists
  <2>2. w[0] = 0 /\ ece391_strncmp(s, t, n) = 0
    BY <1>1, <2>1 DEF ece391_strncmp, Compares
  <2> QED BY <2>1, <2>2 DEF Result
<1>2. CASE n # 0
  <2> DEFINE Step(w, i) == IF s[i] # t[i] THEN s[i] - t[i]
                           ELSE IF s[i] = NUL \/ n - i - 1 = 0 THEN 0
                           ELSE w[i + 1]
             Is(w) == w = [i \in 0 .. n - 1 |-> Step(w, i)]
             W == CHOOSE w : Is(w)
  <2>1. PICK c : c \in [0 .. n -> Int] /\ Compares(c, s, t, n)
    BY ComparisonExists
  <2> DEFINE g == [i \in 0 .. n - 1 |-> c[i]]
  <2>2. Is(g)
    <3>1. ASSUME NEW i \in 0 .. n - 1 PROVE c[i] = Step(g, i)
      <4>1. c[i] = IF s[i] # t[i] THEN s[i] - t[i] ELSE IF s[i] = NUL THEN 0 ELSE c[i + 1]
        BY <2>1 DEF Compares
      <4>2. CASE i = n - 1
        <5>1. i + 1 = n /\ n - i - 1 = 0
          BY <1>0, <4>2
        <5>2. c[i + 1] = 0
          BY <2>1, <5>1 DEF Compares
        <5> HIDE DEF g
        <5> QED BY <4>1, <5>1, <5>2
      <4>3. CASE i # n - 1
        <5>1. i + 1 \in 0 .. n - 1 /\ n - i - 1 # 0
          BY <1>0, <4>3
        <5>2. g[i + 1] = c[i + 1]
          BY <5>1
        <5> HIDE DEF g
        <5> QED BY <4>1, <5>1, <5>2
      <4> QED BY <4>2, <4>3
    <3> DEFINE h == [i \in 0 .. n - 1 |-> Step(g, i)]
    <3>2. h = g
      <4> HIDE DEF Step
      <4> QED BY <3>1
    <3> QED BY <3>2
  <2>3. Is(W)
    <3> HIDE DEF Is
    <3> QED BY <2>2
  <2>4. ece391_strncmp(s, t, n) = W[0]
    BY <1>2 DEF ece391_strncmp
  <2> HIDE DEF W
  <2> DEFINE w == [i \in 0 .. n |-> IF i = n THEN 0 ELSE W[i]]
  <2>5. w[n] = 0
    BY <1>0
  <2>6. ASSUME NEW i \in 0 .. n - 1
        PROVE  w[i] = IF s[i] # t[i] THEN s[i] - t[i] ELSE IF s[i] = NUL THEN 0 ELSE w[i + 1]
    <3>1. W[i] = Step(W, i)
      <4> HIDE DEF Step
      <4> QED BY <2>3
    <3>2. w[i] = W[i]
      BY <1>0
    <3>3. CASE i = n - 1
      <4>1. i + 1 = n /\ n - i - 1 = 0
        BY <1>0, <3>3
      <4>2. w[i + 1] = 0
        BY <2>5, <4>1
      <4> HIDE DEF w
      <4> QED BY <3>1, <3>2, <4>1, <4>2
    <3>4. CASE i # n - 1
      <4>1. n - i - 1 # 0 /\ i + 1 \in 0 .. n /\ i + 1 # n
        BY <1>0, <3>4
      <4>2. w[i + 1] = W[i + 1]
        BY <4>1
      <4> HIDE DEF w
      <4> QED BY <3>1, <3>2, <4>1, <4>2
    <3> QED BY <3>3, <3>4
  <2>7. w[0] = W[0]
    BY <1>0, <1>2
  <2> HIDE DEF w
  <2>8. Compares(w, s, t, n)
    BY <2>5, <2>6 DEF Compares
  <2> QED BY <2>4, <2>7, <2>8 DEF Result
<1> QED BY <1>1, <1>2

\* Whole strings are compared up to their ends.
LEMMA StrcmpCompares ==
    ASSUME NEW s, NEW t, NEW N, IsString(s, N), IsString(t, N), NEW n, n = N + 1
    PROVE  Result(ece391_strcmp(s, t), s, t, n)
<1>0. N \in Nat /\ n \in Nat /\ DOMAIN s = 0 .. N /\ n - 1 = N /\ Readable(s, t, n)
  BY DEF IsString, Readable
<1> DEFINE Step(w, i) == IF s[i] # t[i] THEN s[i] - t[i]
                         ELSE IF s[i] = NUL THEN 0
                         ELSE w[i + 1]
           Is(w) == w = [i \in DOMAIN s |-> Step(w, i)]
           W == CHOOSE w : Is(w)
<1>1. PICK c : c \in [0 .. n -> Int] /\ Compares(c, s, t, n)
  BY <1>0, ComparisonExists
<1>2. ASSUME NEW v, NEW w, NEW i \in 0 .. N, i < N => v[i + 1] = w[i + 1]
      PROVE  Step(v, i) = Step(w, i)
  <2>1. CASE i < N
    BY <1>2, <2>1
  <2>2. CASE ~(i < N)
    <3>1. i = N /\ s[i] = NUL /\ t[i] = NUL
      BY <1>0, <2>2 DEF IsString
    <3> QED BY <3>1
  <2> QED BY <2>1, <2>2
<1> DEFINE g == [i \in DOMAIN s |-> c[i]]
<1>3. Is(g)
  <2>1. ASSUME NEW i \in 0 .. N PROVE c[i] = Step(g, i)
    <3>1. c[i] = Step(c, i)
      BY <1>0, <1>1 DEF Compares
    <3>2. i < N => c[i + 1] = g[i + 1]
      BY <1>0
    <3> HIDE DEF Step, g
    <3>3. Step(c, i) = Step(g, i)
      BY <1>2, <3>2
    <3> QED BY <3>1, <3>3
  <2> DEFINE h == [i \in DOMAIN s |-> Step(g, i)]
  <2>2. h = g
    <3> HIDE DEF Step
    <3> QED BY <1>0, <2>1
  <2> QED BY <2>2
<1>4. Is(W)
  <2> HIDE DEF Is
  <2> QED BY <1>3
<1>5. ece391_strcmp(s, t) = W[0]
  BY DEF ece391_strcmp
<1> HIDE DEF W
<1> DEFINE w == [i \in 0 .. n |-> IF i = n THEN 0 ELSE W[i]]
<1>6. w[n] = 0
  BY <1>0
<1>7. ASSUME NEW i \in 0 .. n - 1 PROVE w[i] = Step(w, i)
  <2>1. i \in 0 .. N /\ i \in DOMAIN s
    BY <1>0
  <2>2. W[i] = Step(W, i)
    <3> HIDE DEF Step
    <3> QED BY <1>4, <2>1
  <2>3. w[i] = W[i] /\ (i < N => W[i + 1] = w[i + 1])
    BY <1>0
  <2> HIDE DEF Step, w
  <2>4. Step(W, i) = Step(w, i)
    BY <1>2, <2>1, <2>3
  <2> QED BY <2>2, <2>3, <2>4
<1>8. w[0] = W[0]
  BY <1>0
<1> HIDE DEF w
<1>9. Compares(w, s, t, n)
  BY <1>6, <1>7 DEF Compares
<1> QED BY <1>5, <1>8, <1>9 DEF Result

\* What a comparison gives: 0 for what agrees, else the sign of the first difference.
LEMMA ResultMeans ==
    ASSUME NEW s, NEW t, NEW n, Readable(s, t, n), NEW r, Result(r, s, t, n)
    PROVE  /\ r = 0 <=> Agree(s, t, 0, n)
           /\ \A k \in 0 .. n - 1 : DifferAt(s, t, k) => SignOf(r, s, t, k)
<1>1. PICK w : Compares(w, s, t, n) /\ r = w[0]
  BY DEF Result
<1>2. w[0] = 0 <=> Agree(s, t, 0, n)
  BY <1>1, ComparesZero
<1>3. \A k \in 0 .. n - 1 : DifferAt(s, t, k) => SignOf(w[0], s, t, k)
  BY <1>1, ComparesSign
<1> QED BY <1>1, <1>2, <1>3

LEMMA StrncmpZero ==
    ASSUME NEW s, NEW t, NEW n, Readable(s, t, n)
    PROVE  strncmp(s, t, n) = 0 <=> Agree(s, t, 0, n)
BY StrncmpCompares, ResultMeans

LEMMA UserStrncmpZero ==
    ASSUME NEW s, NEW t, NEW n, Readable(s, t, n)
    PROVE  ece391_strncmp(s, t, n) = 0 <=> Agree(s, t, 0, n)
BY UserStrncmpCompares, ResultMeans

LEMMA StrcmpZero ==
    ASSUME NEW s, NEW t, NEW N, IsString(s, N), IsString(t, N), NEW n, n = N + 1
    PROVE  ece391_strcmp(s, t) = 0 <=> Agree(s, t, 0, n)
<1>1. Readable(s, t, n)
  BY DEF IsString, Readable
<1> QED BY <1>1, StrcmpCompares, ResultMeans

\* strncpy stores the string's characters, then NULs, in n places and no more.
LEMMA StrncpyCopies ==
    ASSUME NEW s, NEW N, IsString(s, N), NEW n \in 0 .. N + 1
    PROVE  strncpy([i \in 0 .. N |-> 9], s, n) =
             [i \in 0 .. N |-> IF i >= n THEN 9 ELSE IF i < strlen(s) THEN s[i] ELSE NUL]
<1>1. PICK l \in 0 .. N : l = strlen(s) /\ s[l] = NUL /\ \A i \in 0 .. l - 1 : s[i] # NUL
  BY StrlenEnds DEF EndsAt
<1>2. N \in Nat /\ n \in Nat /\ l \in Nat /\ n <= N + 1
  BY <1>1 DEF IsString
<1>3. PICK d : d = [i \in 0 .. N |-> 9]
  OBVIOUS
<1>4. DOMAIN d = 0 .. N /\ \A i \in 0 .. N : d[i] = 9
  BY <1>3
<1>5. PICK end : end = IF \E k \in 0 .. n - 1 : s[k] = NUL THEN l ELSE n
  OBVIOUS
<1>6. strncpy(d, s, n) = [i \in DOMAIN d |-> IF i < end THEN s[i] ELSE IF i < n THEN NUL ELSE d[i]]
  BY <1>1, <1>5 DEF strncpy
<1>7. end = IF l < n THEN l ELSE n
  <2>1. CASE l < n
    <3>1. l \in 0 .. n - 1
      BY <1>2, <2>1
    <3> QED BY <1>1, <1>5, <2>1, <3>1
  <2>2. CASE ~(l < n)
    <3>1. \A k \in 0 .. n - 1 : k \in 0 .. l - 1
      BY <1>2, <2>2
    <3> QED BY <1>1, <1>5, <2>2, <3>1
  <2> QED BY <2>1, <2>2
<1>8. ASSUME NEW i \in 0 .. N
      PROVE  (IF i < end THEN s[i] ELSE IF i < n THEN NUL ELSE d[i])
               = IF i >= n THEN 9 ELSE IF i < l THEN s[i] ELSE NUL
  <2>1. d[i] = 9 /\ i \in Nat /\ end \in Nat
    BY <1>2, <1>4, <1>7
  <2>2. CASE i >= n
    <3>1. ~(i < end) /\ ~(i < n)
      BY <1>2, <1>7, <2>1, <2>2
    <3> QED BY <2>1, <2>2, <3>1
  <2>3. CASE i < n
    <3>1. (i < end <=> i < l) /\ ~(i >= n)
      BY <1>2, <1>7, <2>1, <2>3
    <3> QED BY <2>3, <3>1
  <2> QED BY <1>2, <2>1, <2>2, <2>3
<1>9. strncpy(d, s, n) = [i \in 0 .. N |-> IF i >= n THEN 9 ELSE IF i < l THEN s[i] ELSE NUL]
  BY <1>4, <1>6, <1>8
<1> QED BY <1>1, <1>3, <1>9

\* The first n characters of the text of a string.
UptoText(s, n) == SubSeq(Text(s), 1, Lesser(n, strlen(s)))

\* The texts, character by character.
LEMMA UptoValue ==
    ASSUME NEW s, NEW N, IsString(s, N), NEW n \in Nat
    PROVE  /\ Text(s) \in Seq(Nat) /\ Len(Text(s)) = strlen(s)
           /\ \A i \in 1 .. strlen(s) : Text(s)[i] = s[i - 1]
           /\ UptoText(s, n) \in Seq(Nat)
           /\ Len(UptoText(s, n)) = Lesser(n, strlen(s))
           /\ \A i \in 1 .. Lesser(n, strlen(s)) : UptoText(s, n)[i] = s[i - 1]
<1>1. strlen(s) \in 0 .. N /\ N \in Nat /\ \A i \in 0 .. N : s[i] \in Nat
  BY StrlenEnds DEF IsString
<1>2. PICK k \in 0 .. N : k = strlen(s)
  BY <1>1
<1>3. PICK t : t = Text(s)
  OBVIOUS
<1>4. t = [i \in 1 .. k |-> s[i - 1]]
  BY <1>2, <1>3 DEF Text
<1>5. \A i \in 1 .. k : s[i - 1] \in Nat
  BY <1>1
<1>6. t \in Seq(Nat) /\ Len(t) = k
  <2>1. t \in [1 .. k -> Nat] /\ k \in Nat
    BY <1>1, <1>4, <1>5
  <2> QED BY <2>1
<1>7. PICK m \in 0 .. k : m = Lesser(n, k)
  BY <1>1 DEF Lesser
<1>8. /\ SubSeq(t, 1, m) \in Seq(Nat) /\ Len(SubSeq(t, 1, m)) = m
      /\ \A i \in 1 .. m : SubSeq(t, 1, m)[i] = t[i]
  BY <1>6
<1> QED BY <1>2, <1>3, <1>4, <1>6, <1>7, <1>8 DEF UptoText

\* Agreeing means having the same text.
LEMMA AgreeMeansSame ==
    ASSUME NEW s, NEW t, NEW N, IsString(s, N), IsString(t, N), NEW n \in Nat, n <= N + 1
    PROVE  Agree(s, t, 0, n) <=> UptoText(s, n) = UptoText(t, n)
<1>1. PICK ls \in 0 .. N, lt \in 0 .. N : ls = strlen(s) /\ lt = strlen(t)
  BY StrlenEnds
<1>2. /\ s[ls] = NUL /\ \A i \in 0 .. ls - 1 : s[i] # NUL
      /\ t[lt] = NUL /\ \A i \in 0 .. lt - 1 : t[i] # NUL
      /\ N \in Nat
  BY <1>1, StrlenEnds DEF EndsAt, IsString
<1>3. PICK a \in 0 .. N + 1, b \in 0 .. N + 1 : a = Lesser(n, ls) /\ b = Lesser(n, lt)
  BY <1>2 DEF Lesser
<1>4. ((a = n /\ n <= ls) \/ (a = ls /\ ls < n)) /\ ((b = n /\ n <= lt) \/ (b = lt /\ lt < n))
  BY <1>2, <1>3 DEF Lesser
<1>5. PICK x, y : x = UptoText(s, n) /\ y = UptoText(t, n)
  OBVIOUS
<1>6. /\ x \in Seq(Nat) /\ Len(x) = a /\ \A i \in 1 .. a : x[i] = s[i - 1]
      /\ y \in Seq(Nat) /\ Len(y) = b /\ \A i \in 1 .. b : y[i] = t[i - 1]
  BY <1>1, <1>3, <1>5, UptoValue
<1>7. ASSUME x = y PROVE Agree(s, t, 0, n)
  <2>1. a = b /\ \A i \in 1 .. a : s[i - 1] = t[i - 1]
    BY <1>6, <1>7
  <2>2. \A i \in 0 .. a - 1 : s[i] = t[i]
    <3> TAKE i \in 0 .. a - 1
    <3>1. i + 1 \in 1 .. a /\ (i + 1) - 1 = i
      OBVIOUS
    <3> QED BY <2>1, <3>1
  <2>3. ASSUME NEW k \in 0 .. n - 1, \A j \in 0 .. k - 1 : s[j] # NUL PROVE s[k] = t[k]
    <3>1. CASE k < a
      BY <2>2, <3>1
    <3>2. CASE ~(k < a)
      <4>1. a = ls /\ b = lt /\ ls = lt /\ ls < n
        BY <1>4, <2>1, <3>2
      <4>2. k = ls
        BY <1>2, <2>3, <3>2, <4>1
      <4> QED BY <1>2, <4>1, <4>2
    <3> QED BY <3>1, <3>2
  <2> QED BY <2>3 DEF Agree
<1>8. ASSUME Agree(s, t, 0, n) PROVE x = y
  <2>1. ASSUME NEW i \in 0 .. a, i < n PROVE s[i] = t[i]
    <3>1. i \in 0 .. n - 1 /\ \A j \in 0 .. i - 1 : j \in 0 .. ls - 1
      BY <1>2, <1>4, <2>1
    <3>2. \A j \in 0 .. i - 1 : s[j] # NUL
      BY <1>2, <3>1
    <3> QED BY <1>8, <3>1, <3>2 DEF Agree
  <2>2. \A i \in 0 .. a - 1 : s[i] = t[i] /\ t[i] # NUL
    <3> TAKE i \in 0 .. a - 1
    <3>1. i \in 0 .. a /\ i < n /\ i \in 0 .. ls - 1
      BY <1>2, <1>4
    <3> QED BY <1>2, <2>1, <3>1
  <2>3. a <= lt
    BY <1>2, <2>2
  <2>4. a = b
    <3>1. CASE a = n
      BY <1>2, <1>4, <2>3, <3>1
    <3>2. CASE a # n
      <4>1. a = ls /\ a < n /\ a \in 0 .. a
        BY <1>2, <1>4, <3>2
      <4>2. t[a] = NUL
        BY <1>2, <2>1, <4>1
      <4>3. ~(a < lt)
        BY <1>2, <4>2
      <4> QED BY <1>2, <1>4, <2>3, <4>1, <4>3
    <3> QED BY <3>1, <3>2
  <2>5. \A i \in 1 .. a : x[i] = y[i]
    <3> TAKE i \in 1 .. a
    <3>1. i - 1 \in 0 .. a - 1
      OBVIOUS
    <3> QED BY <1>6, <2>2, <2>4, <3>1
  <2> QED BY <1>6, <2>4, <2>5
<1> QED BY <1>5, <1>7, <1>8

\* All the characters are the text.
LEMMA UptoAll ==
    ASSUME NEW s, NEW N, IsString(s, N), NEW n \in Nat, n >= N
    PROVE  UptoText(s, n) = Text(s)
<1>1. strlen(s) \in 0 .. N /\ N \in Nat
  BY StrlenEnds DEF IsString
<1>2. Lesser(n, strlen(s)) = strlen(s)
  BY <1>1 DEF Lesser
<1>3. PICK x, y : x = UptoText(s, n) /\ y = Text(s)
  OBVIOUS
<1>4. /\ x \in Seq(Nat) /\ Len(x) = strlen(s) /\ \A i \in 1 .. strlen(s) : x[i] = s[i - 1]
      /\ y \in Seq(Nat) /\ Len(y) = strlen(s) /\ \A i \in 1 .. strlen(s) : y[i] = s[i - 1]
  BY <1>2, <1>3, UptoValue
<1>5. x = y
  <2>1. PICK l \in Nat : l = strlen(s)
    BY <1>1
  <2>2. Len(x) = l /\ Len(y) = l /\ \A i \in 1 .. l : x[i] = y[i]
    BY <1>4, <2>1
  <2>3. x \in Seq(Nat) /\ y \in Seq(Nat)
    BY <1>4
  <2> QED BY <2>2, <2>3
<1> QED BY <1>3, <1>5

\* read_dentry_by_name finds a name only by all of its characters.
LEMMA SameNameMeansSame ==
    ASSUME NEW N \in Nat \ {0}, NEW e, \A i \in 0 .. N - 1 : e[i] \in Nat, NEW f, IsString(f, N),
           NEW name, name = [i \in 0 .. N |-> IF i < N THEN e[i] ELSE NUL]
    PROVE  SameName(e, f, N) <=> strlen(name) > 0 /\ Text(f) = Text(name)
<1>1. IsString(name, N)
  <2>1. \A i \in 0 .. N : i < N \/ i = N
    OBVIOUS
  <2> QED BY <2>1 DEF IsString, NUL
<1>2. \A i \in 0 .. N - 1 : name[i] = e[i]
  OBVIOUS
<1>3. Readable(e, f, N)
  BY DEF Readable, IsString
<1>4. Agree(e, f, 0, N) <=> Agree(name, f, 0, N)
  <2>1. \A k \in 0 .. N - 1 : \A j \in 0 .. k - 1 : j \in 0 .. N - 1
    OBVIOUS
  <2>2. \A k \in 0 .. N - 1 : (\A j \in 0 .. k - 1 : e[j] # NUL) <=> (\A j \in 0 .. k - 1 : name[j] # NUL)
    <3> HIDE DEF NUL
    <3> QED BY <1>2, <2>1
  <2> QED BY <1>2, <2>2 DEF Agree
<1>5. strncmp(e, f, N) = 0 <=> Text(name) = Text(f)
  <2>1. strncmp(e, f, N) = 0 <=> Agree(e, f, 0, N)
    BY <1>3, StrncmpZero
  <2>2. N \in Nat /\ N <= N + 1 /\ N >= N
    OBVIOUS
  <2>3. Agree(name, f, 0, N) <=> UptoText(name, N) = UptoText(f, N)
    BY <1>1, <2>2, AgreeMeansSame
  <2>4. UptoText(name, N) = Text(name) /\ UptoText(f, N) = Text(f)
    BY <1>1, <2>2, UptoAll
  <2> QED BY <1>4, <2>1, <2>3, <2>4
<1>6. strlen(name) \in 0 .. N /\ strlen(f) \in 0 .. N /\ EndsAt(name, strlen(name))
  BY <1>1, StrlenEnds
<1>7. strlen(name) > 0 <=> e[0] # NUL
  <2>1. name[0] = e[0] /\ 0 \in 0 .. N - 1
    BY <1>2
  <2> QED BY <1>6, <2>1 DEF EndsAt
<1>8. Text(name) = Text(f) => strlen(name) = strlen(f)
  <2>1. Len(Text(name)) = strlen(name) /\ Len(Text(f)) = strlen(f)
    BY <1>1, UptoValue
  <2> QED BY <2>1
<1> QED BY <1>5, <1>6, <1>7, <1>8 DEF SameName

\* A string behind a gap in memory, and the first characters in memory.
Behind(s, gap, N) == [a \in 0 .. N + gap |-> IF a >= gap THEN s[a - gap] ELSE 9]
First(mem, N) == [i \in 0 .. N |-> mem[i]]

\* strcpy copies the text.
LEMMA StrcpyCopies ==
    ASSUME NEW N \in Nat, NEW s, IsString(s, N), NEW gap \in Nat \ {0},
           NEW mem, mem = Behind(s, gap, N),
           NEW copy, copy = strcpy(mem, 0, gap)
    PROVE  Text(First(copy, N)) = Text(s)
<1> USE DEF Behind
<1>1. PICK l \in 0 .. N : l = strlen(s)
  BY StrlenEnds
<1>2. s[l] = NUL /\ \A i \in 0 .. l - 1 : s[i] # NUL
  BY <1>1, StrlenEnds DEF EndsAt
<1> DEFINE D == 0 .. N + gap
           End(a) == mem[a] = NUL /\ \A b \in gap .. a - 1 : mem[b] # NUL
           E == CHOOSE a \in DOMAIN mem : a >= gap /\ End(a)
<1>3. DOMAIN mem = D /\ \A i \in 0 .. N : gap + i \in D /\ mem[gap + i] = s[i]
  <2>1. DOMAIN mem = D
    OBVIOUS
  <2>2. ASSUME NEW i \in 0 .. N PROVE gap + i \in D /\ mem[gap + i] = s[i]
    <3>1. gap + i \in D /\ gap + i >= gap /\ (gap + i) - gap = i
      OBVIOUS
    <3> QED BY <3>1
  <2> QED BY <2>1, <2>2
<1>0. ASSUME NEW b \in gap .. gap + l - 1 PROVE mem[b] # NUL
  <2>1. PICK i \in 0 .. l - 1 : i = b - gap
    OBVIOUS
  <2>2. i \in 0 .. N /\ gap + i = b
    BY <2>1
  <2>3. mem[gap + i] = s[i]
    BY <1>3, <2>2
  <2> QED BY <1>2, <2>2, <2>3
<1>4. gap + l \in DOMAIN mem /\ gap + l >= gap /\ End(gap + l)
  BY <1>0, <1>2, <1>3
<1>5. E \in DOMAIN mem /\ E >= gap /\ End(E)
  <2> HIDE DEF End
  <2> QED BY <1>4
<1>6. E = gap + l
  <2> HIDE DEF E
  <2>1. E \in Int /\ gap + l \in Int
    BY <1>3, <1>5
  <2>2. ~(E < gap + l)
    <3>1. E < gap + l => E \in gap .. gap + l - 1
      BY <1>5, <2>1
    <3>2. mem[E] = NUL
      BY <1>5, Zenon
    <3> QED BY <1>0, <3>1, <3>2, Zenon
  <2>3. ~(gap + l < E)
    <3>1. gap + l < E => gap + l \in gap .. E - 1
      BY <1>4, <2>1
    <3> HIDE DEF D
    <3> QED BY <1>4, <1>5, <3>1
  <2> QED BY <2>1, <2>2, <2>3
<1>7. copy = CopyBytes(mem, 0, gap, E - gap + 1)
  BY DEF strcpy
<1> HIDE DEF E
<1>8. PICK n \in Nat, z \in Int : n = l + 1 /\ z = 0
  OBVIOUS
<1>9. E - gap + 1 = n
  BY <1>6, <1>8
<1>10. IsMemory(mem, D)
  BY <1>3 DEF IsMemory
<1>11. Inside(z, n, D) /\ Inside(gap, n, D) /\ Upwards(z, gap, n)
  BY <1>8 DEF Inside, Upwards
<1>12. CopyBytes(mem, z, gap, n) = Moved(mem, z, gap, n)
  <2> HIDE DEF D
  <2> QED BY <1>10, <1>11, CopyBytesMoves
<1>13. copy = Moved(mem, 0, gap, l + 1)
  BY <1>7, <1>8, <1>9, <1>12
<1> DEFINE t == [i \in 0 .. N |-> copy[i]]
<1>14. ASSUME NEW i \in 0 .. l PROVE t[i] = s[i]
  <2>1. i \in 0 .. N /\ i \in D /\ i \in 0 .. 0 + (l + 1) - 1 /\ i - 0 + gap = gap + i
    OBVIOUS
  <2>2. copy[i] = mem[gap + i]
    BY <1>3, <1>13, <2>1 DEF Moved
  <2> QED BY <1>3, <2>1, <2>2
<1>15. ASSUME NEW i \in 0 .. N PROVE t[i] \in Nat
  <2>1. \A a \in D : mem[a] \in Nat
    <3> TAKE a \in D
    <3>1. a >= gap => a - gap \in 0 .. N
      OBVIOUS
    <3> QED BY <3>1 DEF IsString
  <2>2. i \in D /\ (i \in 0 .. 0 + (l + 1) - 1 => i - 0 + gap \in D)
    OBVIOUS
  <2>3. copy[i] = IF i \in 0 .. 0 + (l + 1) - 1 THEN mem[i - 0 + gap] ELSE mem[i]
    BY <1>3, <1>13, <2>2 DEF Moved
  <2> QED BY <2>1, <2>2, <2>3
<1>16. t = [i \in 0 .. N |-> t[i]] /\ DOMAIN t = 0 .. N
  OBVIOUS
<1> HIDE DEF t
<1>17. strlen(t) = l
  <2>1. DOMAIN t \in SUBSET Nat
    BY <1>16
  <2>2. l \in DOMAIN t
    BY <1>16
  <2>3. t[l] = NUL
    BY <1>2, <1>14
  <2>4. \A i \in 0 .. l - 1 : i \in 0 .. l
    OBVIOUS
  <2>5. \A i \in 0 .. l - 1 : t[i] # NUL
    BY <1>2, <1>14, <2>4
  <2>6. EndsAt(t, l)
    BY <2>2, <2>3, <2>5 DEF EndsAt
  <2> QED BY <2>1, <2>6, EndUnique
<1>18. Text(t) = Text(s)
  <2>1. Text(t) = [i \in 1 .. l |-> t[i - 1]] /\ Text(s) = [i \in 1 .. l |-> s[i - 1]]
    BY <1>1, <1>17 DEF Text
  <2>2. \A i \in 1 .. l : i - 1 \in 0 .. l
    OBVIOUS
  <2>3. \A i \in 1 .. l : t[i - 1] = s[i - 1]
    BY <1>14, <2>2
  <2> QED BY <2>1, <2>3
<1> QED BY <1>18 DEF t, First

\* The string routines do what they are for, with strings of every length.
LEMMA StringsWork == StringsCorrect
<1>0. LibText \in Nat /\ LibText \in Nat \ {0} /\ LibText + 1 \in Nat
  BY LibTextAssumption
<1>1. ASSUME NEW s \in Strings PROVE IsString(s, LibText)
  <2>1. s \in [0 .. LibText -> {NUL, 1, 2}] /\ s[LibText] = NUL
    BY DEF Strings, Texts
  <2>2. \A i \in 0 .. LibText : s[i] \in Nat
    BY <2>1 DEF NUL
  <2> QED BY <1>0, <2>1, <2>2 DEF IsString
<1>2. ASSUME NEW s \in Strings, NEW t \in Strings
      PROVE  /\ (ece391_strcmp(s, t) = 0) <=> Text(s) = Text(t)
             /\ \A n \in 0 .. LibText + 1 :
                  /\ (strncmp(s, t, n) = 0) <=> UptoText(s, n) = UptoText(t, n)
                  /\ (ece391_strncmp(s, t, n) = 0) <=> UptoText(s, n) = UptoText(t, n)
                  /\ \A k \in 0 .. n - 1 : DifferAt(s, t, k) =>
                       /\ SignOf(strncmp(s, t, n), s, t, k)
                       /\ SignOf(ece391_strncmp(s, t, n), s, t, k)
                       /\ SignOf(ece391_strcmp(s, t), s, t, k)
  <2>1. IsString(s, LibText) /\ IsString(t, LibText)
    BY <1>1
  <2>2. (ece391_strcmp(s, t) = 0) <=> Text(s) = Text(t)
    <3>1. PICK n \in Nat : n = LibText + 1
      BY <1>0
    <3>2. n <= LibText + 1 /\ n >= LibText
      BY <1>0, <3>1
    <3>3. ece391_strcmp(s, t) = 0 <=> Agree(s, t, 0, n)
      BY <2>1, <3>1, StrcmpZero
    <3>4. Agree(s, t, 0, n) <=> UptoText(s, n) = UptoText(t, n)
      BY <2>1, <3>2, AgreeMeansSame
    <3>5. UptoText(s, n) = Text(s) /\ UptoText(t, n) = Text(t)
      BY <2>1, <3>2, UptoAll
    <3> QED BY <3>3, <3>4, <3>5
  <2>3. ASSUME NEW n \in 0 .. LibText + 1
        PROVE  /\ (strncmp(s, t, n) = 0) <=> UptoText(s, n) = UptoText(t, n)
               /\ (ece391_strncmp(s, t, n) = 0) <=> UptoText(s, n) = UptoText(t, n)
               /\ \A k \in 0 .. n - 1 : DifferAt(s, t, k) =>
                    /\ SignOf(strncmp(s, t, n), s, t, k)
                    /\ SignOf(ece391_strncmp(s, t, n), s, t, k)
                    /\ SignOf(ece391_strcmp(s, t), s, t, k)
    <3>1. n \in Nat /\ n <= LibText + 1 /\ \A i \in 0 .. n - 1 : i \in 0 .. LibText
      BY <1>0
    <3>2. Readable(s, t, n)
      BY <2>1, <3>1 DEF Readable, IsString
    <3>3. Agree(s, t, 0, n) <=> UptoText(s, n) = UptoText(t, n)
      BY <2>1, <3>1, AgreeMeansSame
    <3>4. PICK m \in Nat : m = LibText + 1
      BY <1>0
    <3>5. Readable(s, t, m) /\ \A k \in 0 .. n - 1 : k \in 0 .. m - 1
      BY <2>1, <3>1, <3>4 DEF Readable, IsString
    <3>6. /\ Result(strncmp(s, t, n), s, t, n) /\ Result(ece391_strncmp(s, t, n), s, t, n)
          /\ Result(ece391_strcmp(s, t), s, t, m)
      BY <2>1, <3>2, <3>4, StrncmpCompares, UserStrncmpCompares, StrcmpCompares
    <3>7. ASSUME NEW k \in 0 .. n - 1, DifferAt(s, t, k)
          PROVE  /\ SignOf(strncmp(s, t, n), s, t, k)
                 /\ SignOf(ece391_strncmp(s, t, n), s, t, k)
                 /\ SignOf(ece391_strcmp(s, t), s, t, k)
      BY <3>2, <3>5, <3>6, <3>7, ResultMeans
    <3> QED BY <3>2, <3>3, <3>7, StrncmpZero, UserStrncmpZero
  <2> QED BY <2>2, <2>3
<1>3. ASSUME NEW e \in [0 .. LibText - 1 -> {NUL, 1, 2}], NEW f \in Strings
      PROVE  LET name == [i \in 0 .. LibText |-> IF i < LibText THEN e[i] ELSE NUL]
             IN  SameName(e, f, LibText) <=> strlen(name) > 0 /\ Text(f) = Text(name)
  <2>1. PICK name : name = [i \in 0 .. LibText |-> IF i < LibText THEN e[i] ELSE NUL]
    OBVIOUS
  <2>2. \A i \in 0 .. LibText - 1 : e[i] \in Nat
    BY DEF NUL
  <2>3. IsString(f, LibText)
    BY <1>1
  <2>4. SameName(e, f, LibText) <=> strlen(name) > 0 /\ Text(f) = Text(name)
    BY <1>0, <2>1, <2>2, <2>3, SameNameMeansSame
  <2> QED BY <2>1, <2>4, Zenon
<1>4. ASSUME NEW s \in Strings, NEW gap \in 1 .. LibText + 1
      PROVE  LET mem == [a \in 0 .. LibText + gap |-> IF a >= gap THEN s[a - gap] ELSE 9]
                 copy == strcpy(mem, 0, gap)
             IN  Text([i \in 0 .. LibText |-> copy[i]]) = Text(s)
  <2>1. PICK mem : mem = Behind(s, gap, LibText)
    OBVIOUS
  <2>2. PICK copy : copy = strcpy(mem, 0, gap)
    OBVIOUS
  <2>3. IsString(s, LibText) /\ gap \in Nat \ {0}
    BY <1>0, <1>1
  <2>4. Text(First(copy, LibText)) = Text(s)
    BY <1>0, <2>1, <2>2, <2>3, StrcpyCopies
  <2> QED BY <2>1, <2>2, <2>4, Zenon DEF Behind, First
<1>5. \A s, t \in Strings :
         /\ (ece391_strcmp(s, t) = 0) <=> Text(s) = Text(t)
         /\ \A n \in 0 .. LibText + 1 :
              LET Upto(x) == SubSeq(Text(x), 1, Lesser(n, strlen(x)))
              IN  /\ (strncmp(s, t, n) = 0) <=> Upto(s) = Upto(t)
                  /\ (ece391_strncmp(s, t, n) = 0) <=> Upto(s) = Upto(t)
                  /\ \A k \in 0 .. n - 1 : DifferAt(s, t, k) =>
                       /\ SignOf(strncmp(s, t, n), s, t, k)
                       /\ SignOf(ece391_strncmp(s, t, n), s, t, k)
                       /\ SignOf(ece391_strcmp(s, t), s, t, k)
  BY <1>2, Zenon DEF UptoText
<1>6. \A e \in [0 .. LibText - 1 -> {NUL, 1, 2}], f \in Strings :
         LET name == [i \in 0 .. LibText |-> IF i < LibText THEN e[i] ELSE NUL]
         IN  SameName(e, f, LibText) <=> strlen(name) > 0 /\ Text(f) = Text(name)
  BY <1>3, Zenon
<1>7. \A s \in Strings, gap \in 1 .. LibText + 1 :
         LET mem == [a \in 0 .. LibText + gap |-> IF a >= gap THEN s[a - gap] ELSE 9]
             copy == strcpy(mem, 0, gap)
         IN  Text([i \in 0 .. LibText |-> copy[i]]) = Text(s)
  BY <1>4, Zenon
<1>8. \A s \in Strings, n \in 0 .. LibText + 1 :
         strncpy([i \in 0 .. LibText |-> 9], s, n) =
             [i \in 0 .. LibText |-> IF i >= n THEN 9 ELSE IF i < strlen(s) THEN s[i] ELSE NUL]
  BY <1>1, StrncpyCopies
<1> QED BY <1>5, <1>6, <1>7, <1>8, Zenon DEF StringsCorrect

-----------------------------------------------------------------------------
(* Numbers.                                                                *)

\* The sequence from its end.
Reversed(s) == [i \in 1 .. Len(s) |-> s[Len(s) + 1 - i]]

\* A reversal is as long.
LEMMA ReversedSeq ==
    ASSUME NEW s \in Seq(Nat)
    PROVE  Reversed(s) \in Seq(Nat) /\ Len(Reversed(s)) = Len(s)
<1>1. PICK n \in Nat : n = Len(s)
  OBVIOUS
<1>2. \A i \in 1 .. n : n + 1 - i \in 1 .. n
  OBVIOUS
<1>3. \A i \in 1 .. n : s[n + 1 - i] \in Nat
  BY <1>1, <1>2
<1>4. Reversed(s) \in [1 .. n -> Nat]
  BY <1>1, <1>3 DEF Reversed
<1> QED BY <1>1, <1>4

\* The ends up to b are swapped.
EndsSwapped(s, b) == [i \in 1 .. Len(s) |-> IF i <= b \/ i > Len(s) - b THEN s[Len(s) + 1 - i] ELSE s[i]]

\* Two elements change places.
Swapped(t, i, k) == [t EXCEPT ![i] = t[k], ![k] = t[i]]

\* One iteration of strrev.
LEMMA SwapNext ==
    ASSUME NEW s \in Seq(Nat), NEW b \in Nat, 2 * (b + 1) <= Len(s),
           NEW t, t = EndsSwapped(s, b), NEW i \in Nat, i = b + 1, NEW k \in Int, k = Len(s) + 1 - (b + 1)
    PROVE  Swapped(t, i, k) = EndsSwapped(s, i)
<1>1. PICK n \in Nat : n = Len(s)
  OBVIOUS
<1>2. i \in 1 .. n /\ k \in 1 .. n /\ i < k /\ b < i /\ k = n + 1 - i
  BY <1>1
<1>3. t = [j \in 1 .. n |-> IF j <= b \/ j > n - b THEN s[n + 1 - j] ELSE s[j]]
  BY <1>1 DEF EndsSwapped
<1>4. t[i] = s[i] /\ t[k] = s[k]
  <2>1. ~(i <= b) /\ ~(i > n - b) /\ ~(k <= b) /\ ~(k > n - b)
    BY <1>1, <1>2
  <2> QED BY <1>2, <1>3, <2>1
<1> DEFINE r == Swapped(t, i, k)
           u == EndsSwapped(s, i)
<1>5. r = [j \in 1 .. n |-> IF j = k THEN s[i] ELSE IF j = i THEN s[k] ELSE t[j]]
  BY <1>2, <1>3, <1>4 DEF Swapped
<1>6. u = [j \in 1 .. n |-> IF j <= i \/ j > n - i THEN s[n + 1 - j] ELSE s[j]]
  BY <1>1 DEF EndsSwapped
<1> HIDE DEF r, u
<1>7. ASSUME NEW j \in 1 .. n PROVE r[j] = u[j]
  <2>1. CASE j = k
    <3>1. j > n - i /\ n + 1 - j = i
      BY <1>2, <2>1
    <3> QED BY <1>5, <1>6, <2>1, <3>1
  <2>2. CASE j = i
    <3>1. j <= i /\ j # k
      BY <1>2, <2>2
    <3>2. n + 1 - j = k
      BY <1>2, <2>2
    <3> QED BY <1>5, <1>6, <2>2, <3>1, <3>2
  <2>3. CASE j # i /\ j # k
    <3>1. (j <= i <=> j <= b) /\ (j > n - i <=> j > n - b)
      BY <1>1, <1>2, <2>3
    <3>2. r[j] = t[j]
      BY <1>5, <2>3
    <3> QED BY <1>3, <1>6, <3>1, <3>2
  <2> QED BY <2>1, <2>2, <2>3
<1>8. r = u
  BY <1>5, <1>6, <1>7
<1> QED BY <1>8 DEF r, u

\* strrev is the reversal.
LEMMA StrrevReverses ==
    ASSUME NEW s \in Seq(Nat)
    PROVE  strrev(s) = Reversed(s)
<1>1. PICK n \in Nat, h \in Nat : n = Len(s) /\ h = n \div 2
  OBVIOUS
<1>2. 2 * h <= n /\ n <= 2 * h + 1
  BY <1>1
<1> DEFINE Swap(t, i, k) == [t EXCEPT ![i] = t[k], ![k] = t[i]]
           Step(w, b) == Swap(w[b - 1], b, Len(s) + 1 - b)
           Is(w) == w = [b \in 0 .. Len(s) \div 2 |-> IF b = 0 THEN s ELSE Step(w, b)]
           W == CHOOSE w : Is(w)
           g == [b \in 0 .. h |-> EndsSwapped(s, b)]
<1>3. EndsSwapped(s, 0) = s
  <2>1. s = [i \in 1 .. n |-> s[i]]
    BY <1>1
  <2>2. \A i \in 1 .. n : ~(i <= 0 \/ i > n - 0)
    OBVIOUS
  <2> QED BY <1>1, <2>1, <2>2 DEF EndsSwapped
<1>4. ASSUME NEW w, NEW b \in 1 .. h, w[b - 1] = EndsSwapped(s, b - 1) PROVE Step(w, b) = EndsSwapped(s, b)
  <2>0. PICK t : t = w[b - 1]
    OBVIOUS
  <2>1. PICK c \in Nat, k \in Int : c = b - 1 /\ k = Len(s) + 1 - b
    OBVIOUS
  <2>2. 2 * (c + 1) <= Len(s) /\ b = c + 1 /\ k = Len(s) + 1 - (c + 1) /\ t = EndsSwapped(s, c)
    BY <1>1, <1>2, <1>4, <2>0, <2>1
  <2> HIDE DEF Step, Is, W, g
  <2>3. Swapped(t, b, k) = EndsSwapped(s, b)
    BY <2>2, SwapNext
  <2> QED BY <2>0, <2>1, <2>3 DEF Step, Swapped
<1>5. Is(g)
  <2>1. \A b \in 1 .. h : b - 1 \in 0 .. h
    OBVIOUS
  <2>2. \A b \in 1 .. h : g[b - 1] = EndsSwapped(s, b - 1)
    BY <2>1
  <2> HIDE DEF Step
  <2>3. \A b \in 1 .. h : Step(g, b) = EndsSwapped(s, b)
    <3> HIDE DEF g
    <3> QED BY <1>4, <2>2
  <2> DEFINE f == [b \in 0 .. h |-> IF b = 0 THEN s ELSE Step(g, b)]
  <2>4. \A b \in 0 .. h : f[b] = EndsSwapped(s, b)
    BY <1>3, <2>3
  <2>5. f = g
    BY <2>4
  <2> QED BY <1>1, <2>5
<1>6. Is(W)
  <2> HIDE DEF Is
  <2> QED BY <1>5
<1>7. strrev(s) = W[h]
  BY <1>1 DEF strrev
<1> HIDE DEF W
<1> DEFINE Good == {b \in 0 .. h : W[b] = EndsSwapped(s, b)}
<1> HIDE DEF Step
<1>8. 0 \in Good
  BY <1>1, <1>3, <1>6
<1>9. ASSUME NEW b \in 0 .. h - 1, b \in Good PROVE b + 1 \in Good
  <2>1. b + 1 \in 1 .. h /\ b + 1 \in 0 .. h /\ b + 1 # 0 /\ (b + 1) - 1 = b
    OBVIOUS
  <2>2. W[(b + 1) - 1] = EndsSwapped(s, (b + 1) - 1)
    BY <1>9, <2>1
  <2>3. Step(W, b + 1) = EndsSwapped(s, b + 1)
    BY <1>4, <2>1, <2>2
  <2>4. W[b + 1] = Step(W, b + 1)
    BY <1>1, <1>6, <2>1
  <2> QED BY <2>1, <2>3, <2>4
<1> HIDE DEF Good
<1>10. \A b \in 0 .. h : b \in Good
  BY <1>8, <1>9, LoopInduction
<1>11. W[h] = EndsSwapped(s, h)
  BY <1>10 DEF Good
<1>12. EndsSwapped(s, h) = Reversed(s)
  <2>1. ASSUME NEW i \in 1 .. n, ~(i <= h \/ i > n - h) PROVE n + 1 - i = i
    BY <1>2, <2>1
  <2> QED BY <1>1, <2>1 DEF EndsSwapped, Reversed
<1> QED BY <1>7, <1>11, <1>12

\* u[n] is the value of the first n digits.
IsValue(u, digits, radix) ==
    /\ u \in [0 .. Len(digits) -> Nat]
    /\ u[0] = 0
    /\ \A n \in 1 .. Len(digits) : u[n] = u[n - 1] * radix + digits[n]

\* Value is the end of such a list.
LEMMA ValueRuns ==
    ASSUME NEW digits \in Seq(Nat), NEW radix \in Nat
    PROVE  \E u : IsValue(u, digits, radix) /\ Value(digits, radix) = u[Len(digits)]
<1>1. PICK N \in Nat : N = Len(digits)
  OBVIOUS
<1>2. \A n \in 1 .. N : digits[n] \in Nat
  BY <1>1
<1> DEFINE Step(n, v) == v * radix + digits[n]
           Is(w) == w = [n \in 0 .. N |-> IF n = 0 THEN 0 ELSE Step(n, w[n - 1])]
           W == CHOOSE w : Is(w)
           F == [n \in 1 .. N |-> [v \in Nat |-> Step(n, v)]]
<1>3. ASSUME NEW n \in 1 .. N, NEW v \in Nat PROVE Step(n, v) \in Nat
  BY <1>2
<1>4. Value(digits, radix) = W[N]
  BY <1>1 DEF Value
<1> HIDE DEF Step
<1>5. F \in [1 .. N -> [Nat -> Nat]]
  BY <1>3
<1>6. PICK g : IsLoop(g, Nat, 0, N, F)
  <2> HIDE DEF F
  <2>1. 0 \in Nat
    OBVIOUS
  <2> QED BY <1>5, <2>1, LoopExists
<1>7. g \in [0 .. N -> Nat] /\ g[0] = 0 /\ \A n \in 1 .. N : g[n] = Step(n, g[n - 1])
  <2>1. g \in [0 .. N -> Nat] /\ g[0] = 0 /\ \A n \in 1 .. N : g[n] = F[n][g[n - 1]]
    BY <1>6 DEF IsLoop
  <2>2. \A n \in 1 .. N : g[n - 1] \in Nat
    BY <2>1
  <2> QED BY <2>1, <2>2
<1>8. Is(g)
  <2>1. g = [n \in 0 .. N |-> g[n]]
    BY <1>7
  <2>2. \A n \in 0 .. N : g[n] = IF n = 0 THEN 0 ELSE Step(n, g[n - 1])
    BY <1>7
  <2> HIDE DEF F
  <2> QED BY <2>1, <2>2
<1>9. Is(W)
  <2> HIDE DEF Is
  <2> QED BY <1>8
<1> HIDE DEF W, F
<1>10. W = [n \in 0 .. N |-> W[n]] /\ W[0] = 0 /\ \A n \in 1 .. N : W[n] = Step(n, W[n - 1])
  <2>1. W = [n \in 0 .. N |-> W[n]]
    BY <1>9
  <2>2. \A n \in 0 .. N : W[n] = IF n = 0 THEN 0 ELSE Step(n, W[n - 1])
    BY <1>9
  <2>3. 0 \in 0 .. N /\ \A n \in 1 .. N : n \in 0 .. N /\ n # 0
    OBVIOUS
  <2>4. \A n \in 1 .. N : W[n] = Step(n, W[n - 1])
    BY <2>2, <2>3
  <2> QED BY <2>1, <2>2, <2>3, <2>4
<1> DEFINE Good == {n \in 0 .. N : W[n] \in Nat}
<1>11. 0 \in Good
  BY <1>10
<1>12. ASSUME NEW n \in 0 .. N - 1, n \in Good PROVE n + 1 \in Good
  <2>1. n + 1 \in 1 .. N /\ n + 1 \in 0 .. N /\ (n + 1) - 1 = n
    OBVIOUS
  <2>2. W[n + 1] = Step(n + 1, W[(n + 1) - 1])
    BY <1>10, <2>1
  <2>3. Step(n + 1, W[n]) \in Nat
    BY <1>3, <1>12, <2>1
  <2> QED BY <2>1, <2>2, <2>3
<1> HIDE DEF Good
<1>13. \A n \in 0 .. N : n \in Good
  BY <1>11, <1>12, LoopInduction
<1>14. W \in [0 .. N -> Nat]
  BY <1>10, <1>13 DEF Good
<1>15. IsValue(W, digits, radix)
  BY <1>1, <1>10, <1>14 DEF IsValue, Step
<1> QED BY <1>1, <1>4, <1>15

\* A further digit at the end.
LEMMA ValueAppend ==
    ASSUME NEW s \in Seq(Nat), NEW d \in Nat, NEW radix \in Nat, NEW t, t = s \o <<d>>
    PROVE  Value(t, radix) = Value(s, radix) * radix + d /\ Value(s, radix) \in Nat
<1>1. PICK N \in Nat : N = Len(s)
  OBVIOUS
<1>2. /\ t \in Seq(Nat) /\ Len(t) = N + 1 /\ t[N + 1] = d
      /\ \A i \in 1 .. N : t[i] = s[i]
  BY <1>1
<1>3. PICK u : IsValue(u, s, radix) /\ Value(s, radix) = u[Len(s)]
  BY ValueRuns
<1>4. PICK w : IsValue(w, t, radix) /\ Value(t, radix) = w[Len(t)]
  BY <1>2, ValueRuns
<1>5. /\ u \in [0 .. N -> Nat] /\ u[0] = 0
      /\ \A n \in 1 .. N : u[n] = u[n - 1] * radix + s[n]
      /\ w[0] = 0
      /\ \A n \in 1 .. N + 1 : w[n] = w[n - 1] * radix + t[n]
  BY <1>1, <1>2, <1>3, <1>4 DEF IsValue
<1> DEFINE Good == {n \in 0 .. N : u[n] = w[n]}
<1>6. 0 \in Good
  BY <1>5
<1>7. ASSUME NEW n \in 0 .. N - 1, n \in Good PROVE n + 1 \in Good
  <2>1. n + 1 \in 1 .. N /\ n + 1 \in 1 .. N + 1 /\ n + 1 \in 0 .. N /\ (n + 1) - 1 = n
    OBVIOUS
  <2>2. u[n + 1] = u[(n + 1) - 1] * radix + s[n + 1]
    BY <1>5, <2>1
  <2>3. w[n + 1] = w[(n + 1) - 1] * radix + t[n + 1]
    BY <1>5, <2>1
  <2>4. t[n + 1] = s[n + 1]
    BY <1>2, <2>1
  <2>5. u[n + 1] = w[n + 1]
    BY <1>7, <2>1, <2>2, <2>3, <2>4
  <2> QED BY <2>1, <2>5
<1> HIDE DEF Good
<1>8. \A n \in 0 .. N : n \in Good
  BY <1>6, <1>7, LoopInduction
<1>9. u[N] = w[N] /\ u[N] \in Nat
  BY <1>5, <1>8 DEF Good
<1>10. w[N + 1] = w[N] * radix + d
  <2>1. N + 1 \in 1 .. N + 1 /\ (N + 1) - 1 = N
    OBVIOUS
  <2>2. w[N + 1] = w[(N + 1) - 1] * radix + t[N + 1]
    BY <1>5, <2>1
  <2> QED BY <1>2, <2>1, <2>2
<1> QED BY <1>1, <1>2, <1>3, <1>4, <1>9, <1>10

\* No digits.
LEMMA ValueEmpty ==
    ASSUME NEW radix \in Nat
    PROVE  Value(<< >>, radix) = 0
<1>1. PICK e : e = << >>
  OBVIOUS
<1>0. e \in Seq(Nat) /\ Len(e) = 0
  BY <1>1
<1>2. PICK u : IsValue(u, e, radix) /\ Value(e, radix) = u[Len(e)]
  BY <1>0, ValueRuns
<1> QED BY <1>0, <1>1, <1>2 DEF IsValue

\* t is k zeros and then s.
AfterZeros(t, k, s) == /\ Len(t) = k + Len(s) /\ \A i \in 1 .. k : t[i] = 0
                       /\ \A i \in 1 .. Len(s) : t[k + i] = s[i]

\* Zeros in front change nothing.
LEMMA ValueZeros ==
    ASSUME NEW k \in Nat, NEW s \in Seq(Nat), NEW radix \in Nat,
           NEW t \in Seq(Nat), AfterZeros(t, k, s)
    PROVE  Value(t, radix) = Value(s, radix)
<1>0. /\ Len(t) = k + Len(s) /\ \A i \in 1 .. k : t[i] = 0
      /\ \A i \in 1 .. Len(s) : t[k + i] = s[i]
  BY DEF AfterZeros
<1>1. PICK N \in Nat : N = Len(s)
  OBVIOUS
<1>2. PICK u : IsValue(u, s, radix) /\ Value(s, radix) = u[Len(s)]
  BY ValueRuns
<1>3. PICK w : IsValue(w, t, radix) /\ Value(t, radix) = w[Len(t)]
  BY ValueRuns
<1>4. /\ u \in [0 .. N -> Nat] /\ u[0] = 0
      /\ \A n \in 1 .. N : u[n] = u[n - 1] * radix + s[n]
      /\ w \in [0 .. k + N -> Nat] /\ w[0] = 0
      /\ \A n \in 1 .. k + N : w[n] = w[n - 1] * radix + t[n]
  BY <1>0, <1>1, <1>2, <1>3 DEF IsValue
<1> DEFINE Zero == {n \in 0 .. k : w[n] = 0}
           Good == {n \in 0 .. N : u[n] = w[k + n]}
<1>5. 0 \in Zero
  BY <1>4
<1>6. ASSUME NEW n \in 0 .. k - 1, n \in Zero PROVE n + 1 \in Zero
  <2>1. n + 1 \in 1 .. k /\ n + 1 \in 1 .. k + N /\ n + 1 \in 0 .. k /\ (n + 1) - 1 = n
    OBVIOUS
  <2>2. w[n + 1] = w[(n + 1) - 1] * radix + t[n + 1]
    BY <1>4, <2>1
  <2>3. t[n + 1] = 0 /\ w[n] = 0 /\ 0 * radix + 0 = 0
    BY <1>0, <1>6, <2>1
  <2> QED BY <2>1, <2>2, <2>3
<1>7. \A n \in 0 .. k : n \in Zero
  <2> HIDE DEF Zero
  <2> QED BY <1>5, <1>6, LoopInduction
<1>8. 0 \in Good
  <2>1. k \in Zero /\ k + 0 = k
    BY <1>7
  <2> QED BY <1>4, <2>1
<1>9. ASSUME NEW n \in 0 .. N - 1, n \in Good PROVE n + 1 \in Good
  <2>1. n + 1 \in 1 .. N /\ k + (n + 1) \in 1 .. k + N /\ n + 1 \in 0 .. N /\ (n + 1) - 1 = n /\ (k + (n + 1)) - 1 = k + n
    OBVIOUS
  <2>2. u[n + 1] = u[(n + 1) - 1] * radix + s[n + 1]
    BY <1>4, <2>1
  <2>3. w[k + (n + 1)] = w[(k + (n + 1)) - 1] * radix + t[k + (n + 1)]
    BY <1>4, <2>1
  <2>4. t[k + (n + 1)] = s[n + 1]
    BY <1>0, <1>1, <2>1
  <2>5. u[n + 1] = w[k + (n + 1)]
    BY <1>9, <2>1, <2>2, <2>3, <2>4
  <2> QED BY <2>1, <2>5
<1> HIDE DEF Good, Zero
<1>10. \A n \in 0 .. N : n \in Good
  BY <1>8, <1>9, LoopInduction
<1>11. u[N] = w[k + N]
  BY <1>10 DEF Good
<1> QED BY <1>0, <1>1, <1>2, <1>3, <1>11

\* The first element becomes the last one.
LEMMA ReversedCons ==
    ASSUME NEW d \in Nat, NEW s \in Seq(Nat), NEW t, t = <<d>> \o s
    PROVE  Reversed(t) = Reversed(s) \o <<d>>
<1>1. PICK N \in Nat : N = Len(s)
  OBVIOUS
<1>2. /\ t \in Seq(Nat) /\ Len(t) = N + 1 /\ t[1] = d
      /\ \A i \in 1 .. N : t[i + 1] = s[i]
  BY <1>1
<1>3. PICK r : r = Reversed(s)
  OBVIOUS
<1>4. r \in Seq(Nat) /\ Len(r) = N /\ \A i \in 1 .. N : r[i] = s[N + 1 - i]
  BY <1>1, <1>3, ReversedSeq DEF Reversed
<1>5. PICK x, y : x = r \o <<d>> /\ y = Reversed(t)
  OBVIOUS
<1>6. y \in Seq(Nat) /\ Len(y) = N + 1 /\ \A i \in 1 .. N + 1 : y[i] = t[N + 2 - i]
  <2>1. \A i \in 1 .. N + 1 : N + 1 + 1 - i = N + 2 - i
    OBVIOUS
  <2> QED BY <1>2, <1>5, <2>1, ReversedSeq DEF Reversed
<1>7. x \in Seq(Nat) /\ Len(x) = N + 1 /\ x[N + 1] = d /\ \A i \in 1 .. N : x[i] = r[i]
  <2>1. r \in Seq(Nat) /\ Len(r) = N
    BY <1>4
  <2>2. x = r \o <<d>>
    BY <1>5
  <2>3. \A i \in 1 .. N : x[i] = r[i]
    BY <2>1, <2>2
  <2>4. x \in Seq(Nat)
    BY <2>1, <2>2
  <2>5. Len(x) = N + 1
    BY <2>1, <2>2
  <2>6. x[N + 1] = d
    BY <2>1, <2>2
  <2> QED BY <2>3, <2>4, <2>5, <2>6
<1>8. ASSUME NEW i \in 1 .. N + 1 PROVE x[i] = y[i]
  <2>1. CASE i = N + 1
    <3>1. N + 2 - i = 1
      BY <2>1
    <3> QED BY <1>2, <1>6, <1>7, <2>1, <3>1
  <2>2. CASE i # N + 1
    <3>1. i \in 1 .. N /\ N + 1 - i \in 1 .. N /\ (N + 1 - i) + 1 = N + 2 - i
      BY <2>2
    <3>2. y[i] = t[(N + 1 - i) + 1]
      BY <1>6, <3>1
    <3>3. t[(N + 1 - i) + 1] = s[N + 1 - i]
      BY <1>2, <3>1
    <3> QED BY <1>4, <1>7, <3>1, <3>2, <3>3
  <2> QED BY <2>1, <2>2
<1>9. x = y
  BY <1>6, <1>7, <1>8
<1> QED BY <1>3, <1>5, <1>9

\* The radices printf uses.
Radices == {2, 10, 16}

\* Quotient and remainder.
LEMMA Quotient ==
    ASSUME NEW n \in Nat, n # 0, NEW radix \in Radices
    PROVE  /\ radix \in Nat
           /\ n \div radix \in Nat /\ n \div radix < n /\ n % radix \in Nat
           /\ n = (n \div radix) * radix + (n % radix)
           /\ n \div radix = 0 => n % radix # 0
<1>1. CASE radix = 2
  BY <1>1
<1>2. CASE radix = 10
  BY <1>2
<1>3. CASE radix = 16
  BY <1>3
<1> QED BY <1>1, <1>2, <1>3 DEF Radices

\* low[n] holds the digits of n, the lowest first.
IsDigits(low, N, radix) ==
    /\ low \in [0 .. N -> Seq(Nat)]
    /\ low[0] = << >>
    /\ \A n \in 1 .. N : low[n] = <<n % radix>> \o low[n \div radix]

\* Digits is one element of such a list.
LEMMA DigitsRun ==
    ASSUME NEW N \in Nat, NEW radix \in Radices
    PROVE  \E low : IsDigits(low, N, radix) /\ Digits(N, radix) = low[N]
<1> DEFINE Step(n, t) == <<n % radix>> \o t
           Is(w) == w = [n \in 0 .. N |-> IF n = 0 THEN << >> ELSE Step(n, w[n \div radix])]
           W == CHOOSE w : Is(w)
           S == Seq(Nat)
           F == [n \in 1 .. N |-> [t \in S |-> Step(n, t)]]
           P == [n \in 1 .. N |-> n \div radix]
<1>1. ASSUME NEW n \in 1 .. N
      PROVE  n \div radix \in Nat /\ n \div radix < n /\ n % radix \in Nat /\ n \div radix \in 0 .. N
  <2>1. n \in Nat /\ n # 0
    OBVIOUS
  <2>2. n \div radix \in Nat /\ n \div radix < n /\ n % radix \in Nat
    BY <2>1, Quotient
  <2>3. PICK q \in Nat : q = n \div radix
    BY <2>2
  <2> QED BY <2>2, <2>3
<1>2. ASSUME NEW n \in 1 .. N, NEW t \in S PROVE Step(n, t) \in S
  <2>1. PICK d \in Nat : d = n % radix
    BY <1>1
  <2>2. <<d>> \o t \in S
    OBVIOUS
  <2> QED BY <2>1, <2>2
<1>3. Digits(N, radix) = W[N]
  BY DEF Digits
<1>4. << >> \in S
  OBVIOUS
<1> HIDE DEF Step, S
<1>5. F \in [1 .. N -> [S -> S]]
  BY <1>2
<1>6. P \in [1 .. N -> Nat] /\ \A n \in 1 .. N : P[n] < n /\ P[n] = n \div radix
  BY <1>1
<1>7. PICK e : e = << >>
  OBVIOUS
<1>8. PICK g : IsRun(g, S, e, N, P, F)
  <2> HIDE DEF F, P
  <2> QED BY <1>4, <1>5, <1>6, <1>7, RunExists
<1>9. g \in [0 .. N -> S] /\ g[0] = e /\ \A n \in 1 .. N : g[n] = Step(n, g[n \div radix])
  <2>1. g \in [0 .. N -> S] /\ g[0] = e /\ \A n \in 1 .. N : g[n] = F[n][g[P[n]]]
    BY <1>8 DEF IsRun
  <2>2. \A n \in 1 .. N : g[n \div radix] \in S
    BY <1>1, <2>1
  <2> QED BY <1>6, <2>1, <2>2
<1>10. Is(g)
  <2>1. g = [n \in 0 .. N |-> g[n]]
    BY <1>9
  <2>2. \A n \in 0 .. N : n = 0 \/ n \in 1 .. N
    OBVIOUS
  <2>3. \A n \in 0 .. N : g[n] = IF n = 0 THEN << >> ELSE Step(n, g[n \div radix])
    <3> HIDE DEF F, P
    <3> QED BY <1>7, <1>9, <2>2
  <2> HIDE DEF F, P
  <2> QED BY <2>1, <2>3
<1>11. Is(W)
  <2> HIDE DEF Is
  <2> QED BY <1>10
<1> HIDE DEF W, F, P
<1>12. W = [n \in 0 .. N |-> W[n]] /\ W[0] = << >> /\ \A n \in 1 .. N : W[n] = Step(n, W[n \div radix])
  <2>1. W = [n \in 0 .. N |-> W[n]]
    BY <1>11
  <2>2. \A n \in 0 .. N : W[n] = IF n = 0 THEN << >> ELSE Step(n, W[n \div radix])
    BY <1>11
  <2>3. 0 \in 0 .. N /\ \A n \in 1 .. N : n \in 0 .. N /\ n # 0
    OBVIOUS
  <2>4. \A n \in 1 .. N : W[n] = Step(n, W[n \div radix])
    BY <2>2, <2>3
  <2> QED BY <2>1, <2>2, <2>3, <2>4
<1> DEFINE Good == {n \in 0 .. N : W[n] \in S}
<1>13. ASSUME NEW m \in 0 .. N, \A k \in 0 .. m - 1 : k \in Good PROVE m \in Good
  <2>1. CASE m = 0
    BY <1>4, <1>12, <2>1
  <2>2. CASE m # 0
    <3>1. m \in 1 .. N
      BY <2>2
    <3>2. m \div radix \in 0 .. m - 1
      <4>1. PICK q \in Nat : q = m \div radix /\ q < m
        BY <1>1, <3>1
      <4> QED BY <4>1
    <3>3. W[m \div radix] \in S
      BY <1>13, <3>2
    <3>4. Step(m, W[m \div radix]) \in S
      BY <1>2, <3>1, <3>3
    <3> QED BY <1>12, <3>1, <3>4
  <2> QED BY <2>1, <2>2
<1> HIDE DEF Good
<1>14. \A n \in 0 .. N : n \in Good
  BY <1>13, StrongInduction
<1>15. W \in [0 .. N -> S]
  BY <1>12, <1>14 DEF Good
<1>16. IsDigits(W, N, radix)
  BY <1>12, <1>15 DEF IsDigits, S, Step
<1> QED BY <1>3, <1>16

\* What the digits are worth, and that the highest is not 0.
LEMMA DigitsWorth ==
    ASSUME NEW N \in Nat, NEW radix \in Radices, NEW low, IsDigits(low, N, radix)
    PROVE  \A n \in 0 .. N : /\ Value(Reversed(low[n]), radix) = n
                             /\ n # 0 => low[n] # << >> /\ low[n][Len(low[n])] # 0
<1> DEFINE Worth(n) == Value(Reversed(low[n]), radix) = n
           Top(n) == n # 0 => Len(low[n]) # 0 /\ low[n][Len(low[n])] # 0
           Good == {n \in 0 .. N : Worth(n) /\ Top(n)}
<1>0. radix \in Nat
  BY DEF Radices
<1>1. ASSUME NEW m \in 0 .. N, \A k \in 0 .. m - 1 : k \in Good PROVE m \in Good
  <2>1. CASE m = 0
    <3>1. low[m] = << >>
      BY <2>1 DEF IsDigits
    <3>2. Reversed(<< >>) = << >>
      <4>1. PICK e : e = << >>
        OBVIOUS
      <4>2. e \in Seq(Nat) /\ Len(e) = 0
        BY <4>1
      <4>3. Reversed(e) \in Seq(Nat) /\ Len(Reversed(e)) = 0
        BY <4>2, ReversedSeq
      <4>4. Reversed(e) = << >>
        BY <4>3
      <4> QED BY <4>1, <4>4
    <3>3. Value(<< >>, radix) = 0
      BY <1>0, ValueEmpty
    <3> QED BY <2>1, <3>1, <3>2, <3>3
  <2>2. CASE m # 0
    <3>1. m \in 1 .. N /\ m \in Nat
      BY <2>2
    <3>2. PICK q \in Nat, d \in Nat : /\ q = m \div radix /\ q < m /\ d = m % radix
                                      /\ m = q * radix + d /\ (q = 0 => d # 0)
      BY <2>2, <3>1, Quotient
    <3>3. q \in 0 .. m - 1 /\ q \in 0 .. N
      BY <3>2
    <3>4. PICK s, t : s = low[q] /\ t = low[m]
      OBVIOUS
    <3>5. s \in Seq(Nat) /\ t = <<d>> \o s
      BY <3>1, <3>2, <3>3, <3>4 DEF IsDigits
    <3>6. Worth(q) /\ Top(q)
      BY <1>1, <3>3
    <3>7. Reversed(t) = Reversed(s) \o <<d>>
      BY <3>5, ReversedCons
    <3>8. Reversed(s) \in Seq(Nat)
      BY <3>5, ReversedSeq
    <3>9. Value(Reversed(t), radix) = Value(Reversed(s), radix) * radix + d
      BY <1>0, <3>7, <3>8, ValueAppend
    <3>10. Worth(m)
      BY <3>2, <3>4, <3>6, <3>9
    <3>11. Top(m)
      <4>1. PICK l \in Nat : l = Len(s)
        BY <3>5
      <4>2. Len(t) = l + 1 /\ t[1] = d /\ \A i \in 1 .. l : t[i + 1] = s[i]
        BY <3>5, <4>1
      <4>3. CASE q = 0
        <5>1. s = << >>
          BY <3>4, <4>3 DEF IsDigits
        <5>2. l = 0
          BY <4>1, <5>1
        <5> QED BY <3>2, <3>4, <4>2, <4>3, <5>2
      <4>4. CASE q # 0
        <5>1. l # 0 /\ s[l] # 0
          BY <3>4, <3>6, <4>1, <4>4
        <5>2. l \in 1 .. l
          BY <5>1
        <5>3. t[l + 1] = s[l]
          BY <4>2, <5>2
        <5> QED BY <3>4, <4>2, <5>1, <5>3
      <4> QED BY <4>3, <4>4
    <3> QED BY <3>10, <3>11
  <2> QED BY <2>1, <2>2
<1>2. \A n \in 0 .. N : n \in Good
  <2> HIDE DEF Good
  <2> QED BY <1>1, StrongInduction
<1>3. ASSUME NEW n \in 0 .. N, Len(low[n]) # 0 PROVE low[n] # << >>
  <2>1. Len(<< >>) = 0
    OBVIOUS
  <2> QED BY <1>3, <2>1
<1> QED BY <1>2, <1>3

\* itoa prints the value, without a leading zero.
LEMMA ItoaWorth ==
    ASSUME NEW v \in Nat, NEW radix \in Radices
    PROVE  /\ itoa(v, radix) \in Seq(Nat)
           /\ Value(itoa(v, radix), radix) = v
           /\ v > 0 => itoa(v, radix)[1] # 0
<1>0. radix \in Nat
  BY DEF Radices
<1>1. CASE v = 0
  <2>1. PICK e, z : e = << >> /\ z = <<0>>
    OBVIOUS
  <2>2. e \in Seq(Nat) /\ 0 \in Nat
    BY <2>1
  <2>50. << >> \o <<0>> = <<0>>
    OBVIOUS
  <2>51. z = e \o <<0>>
    BY <2>1, <2>50
  <2>52. <<0>> \in Seq(Nat)
    OBVIOUS
  <2>53. z \in Seq(Nat)
    BY <2>1, <2>52
  <2>3. Value(z, radix) = Value(e, radix) * radix + 0
    BY <1>0, <2>2, <2>51, ValueAppend
  <2>4. Value(e, radix) = 0
    BY <1>0, <2>1, ValueEmpty
  <2>5. Value(z, radix) = 0
    BY <1>0, <2>3, <2>4
  <2>6. itoa(v, radix) = z
    BY <1>1, <2>1 DEF itoa
  <2> QED BY <1>1, <2>5, <2>6, <2>53
<1>2. CASE v # 0
  <2>1. PICK low : IsDigits(low, v, radix) /\ Digits(v, radix) = low[v]
    BY DigitsRun
  <2>2. PICK t : t = low[v]
    OBVIOUS
  <2>3. t \in Seq(Nat) /\ v \in 0 .. v
    BY <2>1, <2>2 DEF IsDigits
  <2>4. Value(Reversed(t), radix) = v /\ t # << >> /\ t[Len(t)] # 0
    BY <1>2, <2>1, <2>2, <2>3, DigitsWorth
  <2>5. itoa(v, radix) = Reversed(t)
    BY <1>2, <2>1, <2>2, <2>3, StrrevReverses DEF itoa
  <2>6. Reversed(t) \in Seq(Nat)
    BY <2>3, ReversedSeq
  <2>7. Reversed(t)[1] = t[Len(t)]
    <3>1. PICK n \in Nat : n = Len(t) /\ n # 0
      BY <2>3, <2>4
    <3>2. 1 \in 1 .. n /\ n + 1 - 1 = n
      BY <3>1
    <3> QED BY <3>1, <3>2 DEF Reversed
  <2> QED BY <2>4, <2>5, <2>6, <2>7
<1> QED BY <1>1, <1>2

\* p lists the powers of two.
IsPower(p, w) == p \in [0 .. w -> Nat] /\ p[0] = 1 /\ \A i \in 1 .. w : p[i] = 2 * p[i - 1]

\* Words is the end of such a list.
LEMMA PowerRuns ==
    ASSUME NEW N \in Nat
    PROVE  \E p : IsPower(p, N) /\ Words(N) = p[N]
<1> DEFINE Is(w) == w = [n \in 0 .. N |-> IF n = 0 THEN 1 ELSE 2 * w[n - 1]]
           W == CHOOSE w : Is(w)
           F == [n \in 1 .. N |-> [v \in Nat |-> 2 * v]]
<1>1. F \in [1 .. N -> [Nat -> Nat]]
  OBVIOUS
<1>2. PICK g : IsLoop(g, Nat, 1, N, F)
  <2> HIDE DEF F
  <2>1. 1 \in Nat
    OBVIOUS
  <2> QED BY <1>1, <2>1, LoopExists
<1>3. g \in [0 .. N -> Nat] /\ g[0] = 1 /\ \A n \in 1 .. N : g[n] = 2 * g[n - 1]
  <2>1. g \in [0 .. N -> Nat] /\ g[0] = 1 /\ \A n \in 1 .. N : g[n] = F[n][g[n - 1]]
    BY <1>2 DEF IsLoop
  <2>2. \A n \in 1 .. N : g[n - 1] \in Nat
    BY <2>1
  <2> QED BY <2>1, <2>2
<1>4. Is(g)
  <2>1. g = [n \in 0 .. N |-> g[n]]
    BY <1>3
  <2>2. \A n \in 0 .. N : g[n] = IF n = 0 THEN 1 ELSE 2 * g[n - 1]
    BY <1>3
  <2> HIDE DEF F
  <2> QED BY <2>1, <2>2
<1>5. Is(W)
  <2> HIDE DEF Is
  <2> QED BY <1>4
<1>6. Words(N) = W[N]
  BY DEF Words
<1> HIDE DEF W, F
<1>7. W = [n \in 0 .. N |-> W[n]] /\ W[0] = 1 /\ \A n \in 1 .. N : W[n] = 2 * W[n - 1]
  <2>1. W = [n \in 0 .. N |-> W[n]]
    BY <1>5
  <2>2. \A n \in 0 .. N : W[n] = IF n = 0 THEN 1 ELSE 2 * W[n - 1]
    BY <1>5
  <2>3. 0 \in 0 .. N /\ \A n \in 1 .. N : n \in 0 .. N /\ n # 0
    OBVIOUS
  <2>4. \A n \in 1 .. N : W[n] = 2 * W[n - 1]
    BY <2>2, <2>3
  <2> QED BY <2>1, <2>2, <2>3, <2>4
<1> DEFINE Good == {n \in 0 .. N : W[n] \in Nat}
<1>8. 0 \in Good
  BY <1>7
<1>9. ASSUME NEW n \in 0 .. N - 1, n \in Good PROVE n + 1 \in Good
  <2>1. n + 1 \in 1 .. N /\ n + 1 \in 0 .. N /\ (n + 1) - 1 = n
    OBVIOUS
  <2>2. W[n + 1] = 2 * W[(n + 1) - 1]
    BY <1>7, <2>1
  <2> QED BY <1>9, <2>1, <2>2
<1> HIDE DEF Good
<1>10. \A n \in 0 .. N : n \in Good
  BY <1>8, <1>9, LoopInduction
<1>11. W \in [0 .. N -> Nat]
  BY <1>7, <1>10 DEF Good
<1>12. IsPower(W, N)
  BY <1>7, <1>11 DEF IsPower
<1> QED BY <1>6, <1>12

\* One bit more doubles the words.
LEMMA WordsNext ==
    ASSUME NEW w \in Nat, NEW x, x = w + 1
    PROVE  Words(x) = 2 * Words(w)
<1>1. PICK p : IsPower(p, w) /\ Words(w) = p[w]
  BY PowerRuns
<1>2. PICK q : IsPower(q, x) /\ Words(x) = q[x]
  BY PowerRuns
<1> DEFINE Good == {n \in 0 .. w : p[n] = q[n]}
<1>3. /\ p[0] = 1 /\ \A i \in 1 .. w : p[i] = 2 * p[i - 1]
      /\ q[0] = 1 /\ \A i \in 1 .. w + 1 : q[i] = 2 * q[i - 1]
  BY <1>1, <1>2 DEF IsPower
<1>4. 0 \in Good
  BY <1>3
<1>5. ASSUME NEW n \in 0 .. w - 1, n \in Good PROVE n + 1 \in Good
  <2>1. n + 1 \in 1 .. w /\ n + 1 \in 1 .. w + 1 /\ n + 1 \in 0 .. w /\ (n + 1) - 1 = n
    OBVIOUS
  <2>2. p[n + 1] = 2 * p[(n + 1) - 1] /\ q[n + 1] = 2 * q[(n + 1) - 1]
    BY <1>3, <2>1
  <2> QED BY <1>5, <2>1, <2>2
<1> HIDE DEF Good
<1>6. \A n \in 0 .. w : n \in Good
  BY <1>4, <1>5, LoopInduction
<1>7. p[w] = q[w]
  BY <1>6 DEF Good
<1>8. q[w + 1] = 2 * q[w]
  <2>1. w + 1 \in 1 .. w + 1 /\ (w + 1) - 1 = w
    OBVIOUS
  <2>2. q[w + 1] = 2 * q[(w + 1) - 1]
    BY <1>3, <2>1
  <2> QED BY <2>1, <2>2
<1> QED BY <1>1, <1>2, <1>7, <1>8

\* Words is a number.
LEMMA WordsNat == ASSUME NEW w \in Nat PROVE Words(w) \in Nat
<1>1. PICK p : IsPower(p, w) /\ Words(w) = p[w]
  BY PowerRuns
<1> QED BY <1>1 DEF IsPower

\* There is one word without bits.
LEMMA WordsNone == Words(0) = 1
<1>1. PICK p : IsPower(p, 0) /\ Words(0) = p[0]
  BY PowerRuns
<1> QED BY <1>1 DEF IsPower

\* A hexadecimal digit is four bits.
LEMMA WordsDigit ==
    ASSUME NEW w \in Nat, NEW x, x = w + 4
    PROVE  Words(x) = 16 * Words(w)
<1>1. PICK a \in Nat, b \in Nat, c \in Nat : a = w + 1 /\ b = a + 1 /\ c = b + 1 /\ x = c + 1
  OBVIOUS
<1>2. Words(a) = 2 * Words(w) /\ Words(b) = 2 * Words(a) /\ Words(c) = 2 * Words(b) /\ Words(x) = 2 * Words(c)
  BY <1>1, WordsNext
<1>3. Words(w) \in Nat
  BY WordsNat
<1> QED BY <1>2, <1>3

\* A word of 4 * k bits has at most k hexadecimal digits.
LEMMA DigitsFit ==
    ASSUME NEW N \in Nat, NEW low, IsDigits(low, N, 16), NEW K \in Nat, NEW v \in 0 .. N, v < Words(4 * K)
    PROVE  Len(low[v]) <= K
<1> DEFINE Fits(u, k) == u < Words(4 * k) => Len(low[u]) <= k
           Good == {k \in 0 .. K : \A u \in 0 .. N : Fits(u, k)}
<1>0. Len(low[0]) = 0
  BY DEF IsDigits
<1>1. 0 \in Good
  <2>1. 4 * 0 = 0 /\ Words(0) = 1
    BY WordsNone
  <2>2. \A u \in 0 .. N : u < 1 => u = 0
    OBVIOUS
  <2> QED BY <1>0, <2>1, <2>2
<1>2. ASSUME NEW k \in 0 .. K - 1, k \in Good PROVE k + 1 \in Good
  <2>1. PICK a \in Nat, b \in Nat : a = 4 * k /\ b = 4 * (k + 1) /\ b = a + 4
    OBVIOUS
  <2>2. Words(b) = 16 * Words(a) /\ Words(a) \in Nat
    BY <2>1, WordsDigit, WordsNat
  <2>3. ASSUME NEW u \in 0 .. N, u < Words(b) PROVE Len(low[u]) <= k + 1
    <3>1. CASE u = 0
      BY <1>0, <3>1
    <3>2. CASE u # 0
      <4>1. u \in Nat /\ u \in 1 .. N /\ 16 \in Radices
        BY <3>2 DEF Radices
      <4>2. PICK q \in Nat, d \in Nat : q = u \div 16 /\ d = u % 16 /\ q < u /\ u = q * 16 + d
        BY <3>2, <4>1, Quotient
      <4>3. q < Words(a) /\ q \in 0 .. N
        BY <2>2, <2>3, <4>2
      <4>4. Len(low[q]) <= k
        BY <1>2, <2>1, <4>3
      <4>5. PICK s : s = low[q] /\ s \in Seq(Nat)
        BY <4>3 DEF IsDigits
      <4>6. low[u] = <<d>> \o s
        BY <4>1, <4>2, <4>5 DEF IsDigits
      <4>7. Len(<<d>> \o s) = Len(s) + 1 /\ Len(s) \in Nat
        BY <4>5
      <4> QED BY <4>4, <4>5, <4>6, <4>7
    <3> QED BY <3>1, <3>2
  <2> QED BY <2>1, <2>3
<1> HIDE DEF Good
<1>3. \A k \in 0 .. K : k \in Good
  BY <1>1, <1>2, LoopInduction
<1>4. K \in Good
  BY <1>3
<1> QED BY <1>4 DEF Good

\* A word fits its hexadecimal digits, and "%#x" prints all of them.
LEMMA PaddedWorth ==
    ASSUME NEW v \in Nat, v < Words(WIDTH)
    PROVE  Len(Padded(v)) = WIDTH \div 4 /\ Value(Padded(v), 16) = v
<1>1. PICK full \in Nat : full = WIDTH \div 4 /\ WIDTH = 4 * full /\ full > 0
  BY WidthAssumption
<1>2. PICK s : s = itoa(v, 16)
  OBVIOUS
<1>3. 16 \in Radices /\ 16 \in Nat
  BY DEF Radices
<1>4. s \in Seq(Nat) /\ Value(s, 16) = v
  BY <1>2, <1>3, ItoaWorth
<1>5. Len(s) <= full
  <2>1. CASE v = 0
    <3>1. s = <<0>>
      BY <1>2, <2>1 DEF itoa
    <3>2. Len(<<0>>) = 1
      OBVIOUS
    <3> QED BY <1>1, <3>1, <3>2
  <2>2. CASE v # 0
    <3>1. PICK low : IsDigits(low, v, 16) /\ Digits(v, 16) = low[v]
      BY <1>3, DigitsRun
    <3>2. v \in 0 .. v /\ v < Words(4 * full)
      BY <1>1
    <3>3. Len(low[v]) <= full
      BY <3>1, <3>2, DigitsFit
    <3>4. PICK t : t = low[v] /\ t \in Seq(Nat)
      BY <3>1, <3>2 DEF IsDigits
    <3>5. s = Reversed(t) /\ Len(Reversed(t)) = Len(t)
      BY <1>2, <2>2, <3>1, <3>4, StrrevReverses, ReversedSeq DEF itoa
    <3> QED BY <3>3, <3>4, <3>5
  <2> QED BY <2>1, <2>2
<1>6. PICK l \in Nat, k \in Nat : l = Len(s) /\ k = full - l
  BY <1>4, <1>5
<1>7. PICK z, t : z = [i \in 1 .. k |-> 0] /\ t = z \o s
  OBVIOUS
<1>8. z \in Seq(Nat) /\ Len(z) = k /\ \A i \in 1 .. k : z[i] = 0
  <2>1. z \in [1 .. k -> Nat]
    BY <1>7
  <2> QED BY <1>7, <2>1
<1>9. t \in Seq(Nat) /\ Len(t) = k + l
  <2>1. t = z \o s
    BY <1>7
  <2> QED BY <1>4, <1>6, <1>8, <2>1
<1>10. \A i \in 1 .. k : t[i] = 0
  <2>1. \A i \in 1 .. k : (z \o s)[i] = z[i]
    BY <1>4, <1>8
  <2> QED BY <1>7, <1>8, <2>1
<1>11. \A i \in 1 .. l : t[k + i] = s[i]
  <2>1. \A i \in 1 .. l : (z \o s)[k + i] = s[i]
    BY <1>4, <1>6, <1>8
  <2> QED BY <1>7, <2>1
<1>12. Padded(v) = t
  <2>1. Padded(v) = [i \in 1 .. WIDTH \div 4 - Len(s) |-> 0] \o s
    BY <1>2, Zenon DEF Padded
  <2>2. WIDTH \div 4 - Len(s) = k
    BY <1>1, <1>6
  <2> QED BY <1>7, <2>1, <2>2, Zenon
<1>13. Value(t, 16) = Value(s, 16)
  <2>1. AfterZeros(t, k, s)
    BY <1>6, <1>9, <1>10, <1>11 DEF AfterZeros
  <2> QED BY <1>3, <1>4, <1>9, <2>1, ValueZeros
<1>14. k + l = full
  BY <1>6
<1> QED BY <1>1, <1>4, <1>9, <1>12, <1>13, <1>14

\* "%d" prints the magnitude, the most negative word included.
LEMMA SignedWorth ==
    ASSUME NEW v \in Int, -Words(WIDTH - 1) <= v
    PROVE  (Signed(v).minus <=> v < 0) /\ Value(Signed(v).digits, 10) = Magnitude(v)
<1>1. 10 \in Radices
  BY DEF Radices
<1>2. CASE v < 0
  <2>1. PICK w \in Nat : w = WIDTH - 1 /\ WIDTH = w + 1 /\ WIDTH \in Nat
    BY WidthAssumption
  <2>2. PICK a \in Nat, b \in Nat : a = Words(w) /\ b = Words(WIDTH) /\ b = 2 * a
    BY <2>1, WordsNext, WordsNat
  <2>3. PICK m \in Nat : m = -v
    BY <1>2
  <2>4. m < b /\ m > 0
    BY <1>2, <2>1, <2>2, <2>3
  <2>5. m % b = m
    BY <2>4
  <2>6. Signed(v) = [minus |-> TRUE, digits |-> itoa(m, 10)]
    BY <1>2, <2>2, <2>3, <2>5 DEF Signed
  <2>7. Value(itoa(m, 10), 10) = m
    BY <1>1, ItoaWorth
  <2>8. Signed(v).minus = TRUE /\ Signed(v).digits = itoa(m, 10)
    BY <2>6
  <2> QED BY <1>2, <2>3, <2>7, <2>8 DEF Magnitude
<1>3. CASE ~(v < 0)
  <2>1. v \in Nat
    BY <1>3
  <2>2. Signed(v) = [minus |-> FALSE, digits |-> itoa(v, 10)]
    BY <1>3 DEF Signed
  <2>3. Value(itoa(v, 10), 10) = v
    BY <1>1, <2>1, ItoaWorth
  <2>4. Signed(v).minus = FALSE /\ Signed(v).digits = itoa(v, 10)
    BY <2>2
  <2> QED BY <1>3, <2>3, <2>4 DEF Magnitude
<1> QED BY <1>2, <1>3

\* Numbers are printed digit by digit, for words of every width.
LEMMA NumbersWork == NumbersCorrect
<1>1. WIDTH \in Nat /\ WIDTH - 1 \in Nat
  BY WidthAssumption
<1>2. Words(WIDTH) \in Nat /\ Words(WIDTH - 1) \in Nat
  BY <1>1, WordsNat
<1>3. ASSUME NEW v \in 0 .. Words(WIDTH) - 1
      PROVE  /\ \A radix \in {2, 10, 16} : /\ Value(itoa(v, radix), radix) = v
                                           /\ v > 0 => itoa(v, radix)[1] # 0
             /\ Len(Padded(v)) = WIDTH \div 4 /\ Value(Padded(v), 16) = v
  <2>1. v \in Nat /\ v < Words(WIDTH)
    BY <1>2
  <2>2. \A radix \in Radices : /\ Value(itoa(v, radix), radix) = v
                               /\ v > 0 => itoa(v, radix)[1] # 0
    BY <2>1, ItoaWorth
  <2>3. Len(Padded(v)) = WIDTH \div 4 /\ Value(Padded(v), 16) = v
    BY <2>1, PaddedWorth
  <2> QED BY <2>2, <2>3 DEF Radices
<1>4. ASSUME NEW v \in -Words(WIDTH - 1) .. Words(WIDTH - 1) - 1
      PROVE  (Signed(v).minus <=> v < 0) /\ Value(Signed(v).digits, 10) = Magnitude(v)
  <2>1. v \in Int /\ -Words(WIDTH - 1) <= v
    BY <1>2
  <2> QED BY <2>1, SignedWorth
<1> QED BY <1>3, <1>4 DEF NumbersCorrect

\* All of them.
LEMMA LibraryProved == LibraryCorrect
BY MemoryWorks, StringsWork, NumbersWork DEF LibraryCorrect

\* The routines of lib.c and of ece391support.c do what they are for, for memory of
\* every size, strings of every length and words of every width.
THEOREM LibraryHolds == Spec => []LibraryWorks
<1>1. LibraryWorks
  BY LibraryProved DEF LibraryWorks
<1> QED BY <1>1, PTL
=============================================================================
