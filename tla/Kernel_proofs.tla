--------------------------- MODULE Kernel_proofs ---------------------------
(***************************************************************************)
(* Proofs about Kernel, for every number of terminals, processes and       *)
(* nested handlers: as long as none of the three hazards has happened, the *)
(* process table, the schedule stacks, the saved positions and the context *)
(* on the CPU agree.                                                       *)
(***************************************************************************)
EXTENDS Kernel, FiniteSetTheorems, SequenceTheorems, WellFoundedInduction, TLAPS

-----------------------------------------------------------------------------
(* The inductive invariant.                                                *)

OnStack(t) == 0 .. schedule_top[t] - 1

\* Every scheduled process is live, and its parent and its way back are the
\* process below it, which waits in execute.
Link(t, i) ==
    LET p == schedule_stack[t][i]
    IN  /\ p \in live
        /\ i = 0 => parent[p] = 0 /\ stack_pos[p] = 0
        /\ i > 0 => parent[p] = schedule_stack[t][i - 1] /\ stack_pos[p] = schedule_stack[t][i - 1]
        /\ i < schedule_top[t] - 1 => pc[p] = "exec"

Chained == \A t \in Terminals : \A i \in OnStack(t) : Link(t, i)

AllScheduled == \A p \in live : \E t \in Terminals : \E i \in OnStack(t) : schedule_stack[t][i] = p

Distinct ==
    \A t, u \in Terminals : \A i \in OnStack(t), j \in OnStack(u) :
        schedule_stack[t][i] = schedule_stack[u][j] => t = u /\ i = j

\* The slot of the top process of t is the place where that process stopped.
SavedAt(t) ==
    LET s == schedule_esp[t][schedule_top[t] - 1]
    IN  /\ s.ctx = Top(t)
        /\ s.at = pc[Top(t)]
        /\ s.at \in {"read", "window", "halted"}
        /\ Reaches(s)

Saved == \A t \in Terminals \ {current_process} : schedule_top[t] > 0 => SavedAt(t)

\* Where the running context and context 0 are.
CpuPlace ==
    /\ cpu = current_pid
    /\ cpu # 0 => /\ schedule_top[current_process] > 0
                  /\ Top(current_process) = cpu
                  /\ pc[cpu] \in {"user", "read", "window", "halted"}
                  /\ pc[0] = "exec"
    /\ cpu = 0 => /\ schedule_top[current_process] = 0
                  /\ pc[0] \in {"boot", "halted"}
                  /\ pc[0] = "boot" => current_terminal = current_process

\* Keyboard handlers are nested only on contexts that have opened a window.
Nesting ==
    \A c \in Contexts :
        /\ Len(kbd[c]) <= MaxNest
        /\ pc[c] \notin {"read", "window", "halted"} => kbd[c] = << >>

Running ==
    /\ \A t \in Terminals : terminal_running[t] = 0 => schedule_top[t] = 0
    /\ \A t \in Terminals : terminal_running[t] = 1 =>
           schedule_top[t] > 0 \/ (cpu = 0 /\ t = current_process)
    /\ terminal_request # -1 => terminal_running[terminal_request] = 1

Waiting ==
    \A t \in Terminals : return_switch[t] =>
        schedule_top[t] > 0 /\ pc[Top(t)] = "read" /\ cip[Top(t)] = t

Core ==
    /\ mode = "run"
    /\ num_active_processes = Cardinality(live)
    /\ Chained
    /\ AllScheduled
    /\ Distinct
    /\ Saved
    /\ CpuPlace
    /\ Nesting
    /\ Running
    /\ Waiting

IInv == hazard = {} => TypeOK /\ Core

-----------------------------------------------------------------------------
(* Lemmas about the operators.                                             *)

\* The number of processes fits the table.
LEMMA LiveFinite ==
    ASSUME live \subseteq Pids
    PROVE  /\ IsFiniteSet(live)
           /\ Cardinality(live) \in 0 .. MAX_PROCESSES
           /\ Cardinality(live) < MAX_PROCESSES => FreePids # {}
<1>1. MAX_PROCESSES \in Nat
  BY MaxProcessesAssumption
<1>2. IsFiniteSet(Pids) /\ Cardinality(Pids) = MAX_PROCESSES
  BY <1>1, FS_Interval DEF Pids
<1>3. IsFiniteSet(live) /\ Cardinality(live) <= Cardinality(Pids) /\ Cardinality(live) \in Nat
  BY <1>2, FS_Subset, FS_CardinalityType
<1>4. FreePids = {} => live = Pids
  BY DEF FreePids
<1> QED BY <1>1, <1>2, <1>3, <1>4

\* A non-empty set of naturals has a least element.
LEMMA Least ==
    ASSUME NEW T \in SUBSET Nat, T # {}
    PROVE  \E x \in T : \A y \in T : x <= y
<1>1. PICK x \in T : \A y \in T : <<y, x>> \notin OpToRel(<, Nat)
  BY WFMin, NatLessThanWellFounded, Zenon
<1>2. \A y \in T : ~(y < x)
  BY <1>1, Zenon DEF OpToRel
<1> QED BY <1>2

\* create_new_pcb finds a free block when one is left.
LEMMA NewPidFree ==
    ASSUME live \subseteq Pids, num_active_processes = Cardinality(live),
           num_active_processes < MAX_PROCESSES
    PROVE  NewPid \in Pids /\ NewPid \notin live
<1>1. FreePids # {}
  BY LiveFinite
<1>2. FreePids \in SUBSET Nat
  BY MaxProcessesAssumption DEF FreePids, Pids
<1>3. \E p \in FreePids : \A q \in FreePids : p <= q
  BY <1>1, <1>2, Least
<1>4. NewPid \in FreePids
  BY <1>3 DEF NewPid
<1> QED BY <1>4 DEF FreePids

\* A schedule stack is never higher than the number of processes.
LEMMA StackHeight ==
    ASSUME TypeOK, Chained, Distinct, NEW t \in Terminals
    PROVE  schedule_top[t] <= Cardinality(live)
<1> DEFINE n == schedule_top[t]
           f == [i \in 0 .. n - 1 |-> schedule_stack[t][i]]
<1>1. n \in Nat
  BY MaxProcessesAssumption DEF TypeOK, TOTAL_PROCESSES
<1>2. f \in [0 .. n - 1 -> live]
  BY DEF Chained, Link, OnStack
<1>3. \A i, j \in 0 .. n - 1 : f[i] = f[j] => i = j
  BY DEF Distinct, OnStack
<1>4. f \in Injection(0 .. n - 1, live)
  BY <1>2, <1>3 DEF Injection, IsInjective
<1>5. IsFiniteSet(live) /\ Cardinality(live) \in Nat
  BY LiveFinite DEF TypeOK
<1>6. Cardinality(0 .. n - 1) <= Cardinality(live)
  BY <1>4, <1>5, FS_Injection
<1>7. Cardinality(0 .. n - 1) = n
  BY <1>1, FS_Interval
<1> QED BY <1>6, <1>7

\* Counting on from a terminal, modulo the number of terminals.
LEMMA Onward ==
    ASSUME NEW c \in Terminals, NEW k \in 1 .. NUM_TERMINALS
    PROVE  (c + k) % NUM_TERMINALS = IF c + k < NUM_TERMINALS THEN c + k ELSE c + k - NUM_TERMINALS
BY NumTerminalsAssumption, SMT DEF Terminals

\* The count from one terminal reaches every other.
LEMMA OnwardReaches ==
    ASSUME NEW c \in Terminals, NEW u \in Terminals
    PROVE  \E k \in 1 .. NUM_TERMINALS : (c + k) % NUM_TERMINALS = u
<1> DEFINE m == IF u > c THEN u - c ELSE u + NUM_TERMINALS - c
<1>1. m \in 1 .. NUM_TERMINALS
  BY NumTerminalsAssumption DEF Terminals
<1>2. u = IF c + m < NUM_TERMINALS THEN c + m ELSE c + m - NUM_TERMINALS
  BY NumTerminalsAssumption DEF Terminals
<1>3. (c + m) % NUM_TERMINALS = u
  BY <1>1, <1>2, Onward
<1> QED BY <1>1, <1>3

\* The loop of timer_handler stops at a terminal with a process.
LEMMA NextTerminalRuns ==
    ASSUME current_process \in Terminals, NEW u \in Terminals, schedule_top[u] # 0
    PROVE  NextTerminal \in Terminals /\ schedule_top[NextTerminal] # 0
<1> DEFINE t(k) == (current_process + k) % NUM_TERMINALS
           Found(k) == schedule_top[t(k)] # 0
           K == {k \in 1 .. NUM_TERMINALS : Found(k)}
           First(k) == Found(k) /\ \A j \in 1 .. k - 1 : schedule_top[t(j)] = 0
           k0 == CHOOSE k \in 1 .. NUM_TERMINALS : First(k)
<1>1. PICK m \in 1 .. NUM_TERMINALS : t(m) = u
  BY OnwardReaches
<1>2. m \in K
  BY <1>1
<1>3. K \in SUBSET Nat
  BY NumTerminalsAssumption
<1>4. PICK x \in K : \A y \in K : x <= y
  <2> HIDE DEF K
  <2> QED BY <1>2, <1>3, Least
<1>5. x \in 1 .. NUM_TERMINALS /\ First(x)
  <2>1. x \in 1 .. NUM_TERMINALS /\ Found(x)
    BY <1>4
  <2>2. ASSUME NEW j \in 1 .. x - 1
        PROVE  schedule_top[t(j)] = 0
    <3>1. j \in 1 .. NUM_TERMINALS /\ ~(x <= j)
      BY <2>1, NumTerminalsAssumption
    <3>2. j \notin K
      BY <3>1, <1>4
    <3> QED BY <3>1, <3>2
  <2> QED BY <2>1, <2>2
<1>6. k0 \in 1 .. NUM_TERMINALS /\ First(k0)
  <2> HIDE DEF First
  <2> QED BY <1>5
<1>7. NextTerminal = t(k0)
  BY DEF NextTerminal
<1>8. t(k0) \in Terminals
  <2> HIDE DEF k0
  <2> QED BY <1>6, Onward, NumTerminalsAssumption DEF Terminals
<1>9. schedule_top[t(k0)] # 0
  <2> HIDE DEF k0
  <2> QED BY <1>6
<1> QED
  <2> HIDE DEF k0
  <2> QED BY <1>7, <1>8, <1>9

\* The position saved by a tick is well formed.
LEMMA HerePosition ==
    ASSUME TypeOK, Nesting
    PROVE  Here \in Position
<1>1. cpu \in Contexts /\ pc[cpu] \in Places /\ kbd[cpu] \in Seq(Handlers)
  BY DEF TypeOK
<1>2. Len(kbd[cpu]) \in 0 .. MaxNest
  BY <1>1, MaxNestAssumption DEF Nesting
<1>3. Looping(cpu, Len(kbd[cpu])) \in BOOLEAN
  BY DEF Looping
<1> QED BY <1>1, <1>2, <1>3 DEF Here, Position

\* The running process and everyone on a schedule stack has a control block.
LEMMA OnStackLive ==
    ASSUME TypeOK, Core
    PROVE  /\ \A t \in Terminals : schedule_top[t] \in 0 .. MAX_PROCESSES
           /\ \A t \in Terminals : \A i \in OnStack(t) :
                 schedule_stack[t][i] \in live /\ schedule_stack[t][i] # 0
           /\ \A t \in Terminals : schedule_top[t] > 0 =>
                 schedule_top[t] - 1 \in OnStack(t) /\ Top(t) \in live /\ Top(t) # 0
           /\ cpu # 0 => cpu \in live
<1>1. live \subseteq Pids /\ 0 \notin live
  BY MaxProcessesAssumption DEF TypeOK, Pids
<1>2. \A t \in Terminals : schedule_top[t] \in 0 .. MAX_PROCESSES
  <2> TAKE t \in Terminals
  <2>1. schedule_top[t] \in Nat
    BY MaxProcessesAssumption DEF TypeOK, TOTAL_PROCESSES
  <2>2. schedule_top[t] <= Cardinality(live)
    BY StackHeight DEF Core
  <2>3. Cardinality(live) \in 0 .. MAX_PROCESSES
    BY <1>1, LiveFinite
  <2> QED BY <2>1, <2>2, <2>3, MaxProcessesAssumption
<1>3. \A t \in Terminals : \A i \in OnStack(t) :
         schedule_stack[t][i] \in live /\ schedule_stack[t][i] # 0
  BY <1>1 DEF Core, Chained, Link
<1>4. \A t \in Terminals : schedule_top[t] > 0 =>
         schedule_top[t] - 1 \in OnStack(t) /\ Top(t) \in live /\ Top(t) # 0
  BY <1>2, <1>3, MaxProcessesAssumption DEF OnStack, Top
<1>5. cpu # 0 => cpu \in live
  BY <1>4 DEF Core, CpuPlace, TypeOK
<1> QED BY <1>2, <1>3, <1>4, <1>5

-----------------------------------------------------------------------------
(* execute.                                                                *)

\* execute keeps the types, on whichever terminal it puts the new process.
LEMMA ExecuteType ==
    ASSUME TypeOK, Core, NEW c \in Contexts, NEW par \in Contexts, NEW t \in Terminals,
           execute(c, par, t)
    PROVE  /\ NewPid \in Pids /\ NewPid \notin live
           /\ live' \subseteq Pids
           /\ parent' \in [Contexts -> Contexts]
           /\ stack_pos' \in [Contexts -> Contexts]
           /\ num_active_processes' \in 0 .. MAX_PROCESSES
           /\ num_active_processes' = Cardinality(live')
           /\ current_pid' \in Contexts
           /\ terminal_running' \in [Terminals -> {0, 1}]
           /\ schedule_top' \in [Terminals -> 0 .. TOTAL_PROCESSES]
           /\ schedule_stack' \in [Terminals -> [Slots -> Contexts]]
           /\ schedule_esp' \in [Terminals -> [Slots -> Position]]
           /\ cpu' \in Contexts
           /\ pc' \in [Contexts -> Places]
           /\ kbd' \in [Contexts -> Seq(Handlers)]
<1>1. live \subseteq Pids /\ num_active_processes = Cardinality(live)
  BY DEF TypeOK, Core
<1>2. NewPid \in Pids /\ NewPid \notin live
  BY <1>1, NewPidFree DEF execute
<1>3. NewPid \in Contexts
  BY <1>2, MaxProcessesAssumption DEF Pids, Contexts
<1>4. schedule_top[t] \in 0 .. MAX_PROCESSES
  BY OnStackLive
<1>5. Cardinality(live') = Cardinality(live) + 1 /\ Cardinality(live) \in 0 .. MAX_PROCESSES
  <2>1. live' = live \cup {NewPid}
    BY DEF execute, create_new_pcb
  <2>2. Cardinality(live \cup {NewPid}) = Cardinality(live) + 1
    BY <1>1, <1>2, LiveFinite, FS_AddElement
  <2> QED BY <2>1, <2>2, <1>1, LiveFinite
<1>6. num_active_processes' \in 0 .. MAX_PROCESSES /\ num_active_processes' = Cardinality(live')
  BY <1>1, <1>5, MaxProcessesAssumption DEF execute, create_new_pcb
<1>7. live' \subseteq Pids /\ parent' \in [Contexts -> Contexts]
  BY <1>1, <1>2, <1>3 DEF execute, create_new_pcb, TypeOK
<1>8. schedule_top' \in [Terminals -> 0 .. TOTAL_PROCESSES]
  <2>1. schedule_top[t] + 1 \in 0 .. TOTAL_PROCESSES
    BY <1>4, MaxProcessesAssumption DEF TOTAL_PROCESSES
  <2>2. schedule_top' = [schedule_top EXCEPT ![t] = schedule_top[t] + 1]
    BY DEF execute, schedule
  <2>3. schedule_top \in [Terminals -> 0 .. TOTAL_PROCESSES]
    BY DEF TypeOK
  <2> QED BY <2>1, <2>2, <2>3
<1>9. schedule_stack' \in [Terminals -> [Slots -> Contexts]]
  <2>1. schedule_top[t] \in Slots
    BY <1>4, MaxProcessesAssumption DEF Slots, TOTAL_PROCESSES
  <2>2. schedule_stack' = [schedule_stack EXCEPT ![t][schedule_top[t]] = NewPid]
    BY DEF execute, schedule
  <2>3. schedule_stack \in [Terminals -> [Slots -> Contexts]]
    BY DEF TypeOK
  <2> QED BY <1>3, <2>1, <2>2, <2>3
<1>10. schedule_esp' \in [Terminals -> [Slots -> Position]]
  BY DEF execute, schedule, TypeOK
<1>11. pc' \in [Contexts -> Places]
  BY <1>3 DEF execute, TypeOK, Places
<1>12. kbd' \in [Contexts -> Seq(Handlers)]
  <2>1. << >> \in Seq(Handlers)
    OBVIOUS
  <2> QED BY <1>3, <2>1 DEF execute, TypeOK
<1>13. stack_pos' \in [Contexts -> Contexts] /\ current_pid' \in Contexts /\ cpu' \in Contexts
  BY <1>3 DEF execute, TypeOK
<1>14. terminal_running' \in [Terminals -> {0, 1}]
  BY DEF execute, TypeOK
<1> QED BY <1>2, <1>6, <1>7, <1>8, <1>9, <1>10, <1>11, <1>12, <1>13, <1>14

\* execute keeps the rest when the new process goes on the stack of the terminal
\* that gets the CPU, above its caller, and the other terminals can be resumed.
LEMMA ExecuteCore ==
    ASSUME TypeOK, Core, NEW c \in Contexts, NEW t \in Terminals,
           execute(c, c, t), current_process' = t,
           UNCHANGED <<readVars, mode, terminal_request>>,
           \/ c = 0 /\ schedule_top[t] = 0
           \/ c # 0 /\ c = cpu /\ t = current_process,
           cpu = 0 => t = current_process,
           pc[c] # "read",
           \A u \in Terminals \ {t} : schedule_top[u] > 0 => SavedAt(u)
    PROVE  Core'
<1> DEFINE n == schedule_top[t]
           p == NewPid
<1>1. p \in Pids /\ p \notin live /\ p # 0 /\ p \in Contexts
  <2>1. p \in Pids /\ p \notin live
    BY ExecuteType
  <2> QED BY <2>1, MaxProcessesAssumption DEF Pids, Contexts
<1>2. n \in Nat /\ n \in Slots
  BY OnStackLive, MaxProcessesAssumption DEF Slots, TOTAL_PROCESSES
<1>3. c # p /\ (n = 0 => c = 0) /\ (n > 0 => c # 0 /\ c = schedule_stack[t][n - 1] /\ t = current_process)
  BY <1>1, <1>2, OnStackLive DEF Core, CpuPlace, Top
<1>4. /\ schedule_top' = [schedule_top EXCEPT ![t] = n + 1]
      /\ schedule_stack' = [schedule_stack EXCEPT ![t][n] = p]
      /\ schedule_esp' = schedule_esp
      /\ live' = live \cup {p}
      /\ parent' = [parent EXCEPT ![p] = c]
      /\ stack_pos' = [stack_pos EXCEPT ![p] = c]
      /\ current_pid' = p /\ cpu' = p
      /\ pc' = [pc EXCEPT ![c] = "exec", ![p] = "user"]
      /\ kbd' = [kbd EXCEPT ![c] = << >>, ![p] = << >>]
      /\ terminal_running' = [terminal_running EXCEPT ![t] = 1]
  BY DEF execute, schedule, create_new_pcb
<1> HIDE DEF p
<1>5. /\ \A u \in Terminals \ {t} : schedule_top'[u] = schedule_top[u] /\ schedule_stack'[u] = schedule_stack[u]
      /\ schedule_top'[t] = n + 1
      /\ schedule_stack'[t][n] = p
      /\ \A i \in OnStack(t) : schedule_stack'[t][i] = schedule_stack[t][i]
  BY <1>2, <1>4 DEF TypeOK, OnStack
<1>6. \A u \in Terminals \ {t} : OnStack(u)' = OnStack(u) /\ Top(u)' = Top(u)
  BY <1>5 DEF OnStack, Top
<1>7. OnStack(t)' = OnStack(t) \cup {n} /\ Top(t)' = p
  BY <1>2, <1>5 DEF OnStack, Top
<1>8. /\ \A q \in live : q # p
      /\ \A q \in live : parent'[q] = parent[q] /\ stack_pos'[q] = stack_pos[q]
      /\ \A q \in live : q # c => pc'[q] = pc[q]
      /\ \A q \in live : q # c => kbd'[q] = kbd[q]
      /\ \A q \in live : pc[q] = "exec" => pc'[q] = "exec"
  <2> SUFFICES ASSUME NEW q \in live
               PROVE  /\ q # p
                      /\ parent'[q] = parent[q] /\ stack_pos'[q] = stack_pos[q]
                      /\ q # c => pc'[q] = pc[q]
                      /\ q # c => kbd'[q] = kbd[q]
                      /\ pc[q] = "exec" => pc'[q] = "exec"
    OBVIOUS
  <2>1. q # p /\ q \in Contexts
    BY <1>1, MaxProcessesAssumption DEF TypeOK, Pids, Contexts
  <2> QED BY <2>1, <1>1, <1>4 DEF TypeOK
<1>9. /\ parent'[p] = c /\ stack_pos'[p] = c
      /\ pc'[p] = "user" /\ pc'[c] = "exec" /\ kbd'[p] = << >> /\ kbd'[c] = << >>
  BY <1>1, <1>3, <1>4 DEF TypeOK
<1>10. ASSUME NEW u \in Terminals \ {t}, schedule_top[u] > 0
       PROVE  Top(u) \in live /\ Top(u) # c
  <2>1. Top(u) \in live /\ Top(u) # 0 /\ schedule_top[u] - 1 \in OnStack(u)
    BY <1>10, OnStackLive
  <2>2. CASE n = 0
    BY <2>1, <2>2, <1>3
  <2>3. CASE n > 0
    <3>1. n - 1 \in OnStack(t) /\ c = schedule_stack[t][n - 1]
      BY <2>3, <1>2, <1>3, OnStackLive DEF OnStack
    <3>2. schedule_stack[u][schedule_top[u] - 1] # schedule_stack[t][n - 1]
      BY <2>1, <3>1 DEF Core, Distinct
    <3> QED BY <2>1, <3>1, <3>2 DEF Top
  <2> QED BY <2>2, <2>3, <1>2
<1>11. Chained'
  <2> SUFFICES ASSUME NEW u \in Terminals, NEW i \in OnStack(u)'
               PROVE  Link(u, i)'
    BY DEF Chained
  <2>1. CASE u # t
    <3>1. i \in OnStack(u) /\ schedule_stack[u][i] \in live
      BY <2>1, <1>6, OnStackLive
    <3>2. Link(u, i)
      BY <3>1 DEF Core, Chained
    <3>3. i < schedule_top[u] - 1 => pc'[schedule_stack[u][i]] = "exec"
      BY <3>1, <3>2, <1>8 DEF Link
    <3> QED BY <2>1, <3>1, <3>2, <3>3, <1>4, <1>5, <1>8 DEF Link
  <2>2. CASE u = t /\ i = n
    <3>1. n > 0 => schedule_stack'[t][n - 1] = c
      BY <1>2, <1>3, <1>5 DEF OnStack
    <3> QED BY <2>2, <3>1, <1>2, <1>3, <1>4, <1>5, <1>9 DEF Link
  <2>3. CASE u = t /\ i # n
    <3>1. i \in OnStack(t) /\ schedule_stack[t][i] \in live /\ schedule_stack'[t][i] = schedule_stack[t][i]
      BY <2>3, <1>5, <1>7, OnStackLive
    <3>2. i > 0 => schedule_stack'[t][i - 1] = schedule_stack[t][i - 1]
      BY <3>1, <1>2, <1>5 DEF OnStack
    <3>4. Link(t, i)
      BY <3>1 DEF Core, Chained
    <3>3. pc'[schedule_stack[t][i]] = "exec"
      <4>1. CASE i = n - 1
        BY <3>1, <4>1, <1>2, <1>3, <1>9 DEF OnStack
      <4>2. CASE i < n - 1
        BY <3>1, <3>4, <4>2, <1>8 DEF Link
      <4> QED BY <3>1, <4>1, <4>2, <1>2 DEF OnStack
    <3> QED BY <2>3, <3>1, <3>2, <3>3, <3>4, <1>4, <1>8 DEF Link
  <2> QED BY <2>1, <2>2, <2>3
<1>12. AllScheduled'
  <2> SUFFICES ASSUME NEW q \in live'
               PROVE  \E u \in Terminals : \E i \in OnStack(u)' : schedule_stack'[u][i] = q
    BY DEF AllScheduled
  <2>1. CASE q = p
    BY <2>1, <1>5, <1>7
  <2>2. CASE q # p
    <3>1. PICK u \in Terminals : \E i \in OnStack(u) : schedule_stack[u][i] = q
      BY <2>2, <1>4 DEF Core, AllScheduled
    <3>2. PICK i \in OnStack(u) : schedule_stack[u][i] = q
      BY <3>1
    <3>3. i \in OnStack(u)' /\ schedule_stack'[u][i] = q
      BY <3>2, <1>5, <1>6, <1>7
    <3> QED BY <3>3
  <2> QED BY <2>1, <2>2
<1>13. Distinct'
  <2>1. \A u \in Terminals : \A i \in OnStack(u)' :
          \/ u = t /\ i = n /\ schedule_stack'[u][i] = p
          \/ i \in OnStack(u) /\ schedule_stack'[u][i] = schedule_stack[u][i] /\ schedule_stack'[u][i] # p
    BY <1>1, <1>5, <1>6, <1>7, OnStackLive
  <2> QED BY <2>1 DEF Core, Distinct
<1>14. Saved'
  <2> SUFFICES ASSUME NEW u \in Terminals \ {t}, schedule_top'[u] > 0
               PROVE  SavedAt(u)'
    BY DEF Saved
  <2>1. schedule_top[u] > 0 /\ SavedAt(u) /\ Top(u)' = Top(u) /\ schedule_top'[u] = schedule_top[u]
    BY <1>5, <1>6
  <2>2. pc'[Top(u)] = pc[Top(u)] /\ kbd'[Top(u)] = kbd[Top(u)]
    BY <2>1, <1>8, <1>10
  <2> QED BY <2>1, <2>2, <1>4 DEF SavedAt, Reaches, Looping
<1>15. CpuPlace'
  <2>1. pc'[0] = "exec"
    <3>1. CASE c = 0
      BY <3>1, <1>9
    <3>2. CASE c # 0
      <4>1. 0 \in Contexts /\ pc[0] = "exec"
        BY <3>2, MaxProcessesAssumption DEF Core, CpuPlace, Contexts
      <4> QED BY <3>2, <4>1, <1>1, <1>4 DEF TypeOK
    <3> QED BY <3>1, <3>2
  <2> QED BY <2>1, <1>1, <1>2, <1>4, <1>5, <1>7, <1>9 DEF CpuPlace
<1>16. Nesting'
  <2> SUFFICES ASSUME NEW d \in Contexts
               PROVE  /\ Len(kbd'[d]) <= MaxNest
                      /\ pc'[d] \notin {"read", "window", "halted"} => kbd'[d] = << >>
    BY DEF Nesting
  <2>1. CASE d = c \/ d = p
    BY <2>1, <1>9, MaxNestAssumption
  <2>2. CASE d # c /\ d # p
    <3>1. pc'[d] = pc[d] /\ kbd'[d] = kbd[d]
      BY <2>2, <1>1, <1>4 DEF TypeOK
    <3> QED BY <3>1 DEF Core, Nesting
  <2> QED BY <2>1, <2>2
<1>17. Running'
  <2>1. \A u \in Terminals \ {t} : terminal_running'[u] = terminal_running[u]
    BY <1>4 DEF TypeOK
  <2>2. terminal_running'[t] = 1 /\ schedule_top'[t] > 0
    BY <1>2, <1>4, <1>5 DEF TypeOK
  <2>3. \A u \in Terminals : terminal_running'[u] = 0 => schedule_top'[u] = 0
    BY <2>1, <2>2, <1>5 DEF Core, Running
  <2>4. \A u \in Terminals : terminal_running'[u] = 1 => schedule_top'[u] > 0
    BY <2>1, <2>2, <1>5 DEF Core, Running
  <2>5. terminal_request' # -1 => terminal_running'[terminal_request'] = 1
    BY <2>1, <2>2 DEF Core, Running, TypeOK
  <2> QED BY <2>3, <2>4, <2>5 DEF Running
<1>18. Waiting'
  <2> SUFFICES ASSUME NEW u \in Terminals, return_switch'[u]
               PROVE  schedule_top'[u] > 0 /\ pc'[Top(u)'] = "read" /\ cip'[Top(u)'] = u
    BY DEF Waiting
  <2>1. schedule_top[u] > 0 /\ pc[Top(u)] = "read" /\ cip[Top(u)] = u
    BY DEF Core, Waiting, readVars
  <2>2. u # t
    BY <2>1, <1>2, <1>3 DEF Top
  <2>3. Top(u)' = Top(u) /\ pc'[Top(u)] = pc[Top(u)]
    BY <2>1, <2>2, <1>6, <1>8, <1>10
  <2> QED BY <2>1, <2>2, <2>3, <1>5 DEF readVars
<1>19. mode' = "run" /\ num_active_processes' = Cardinality(live')
  BY ExecuteType DEF Core
<1> QED BY <1>11, <1>12, <1>13, <1>14, <1>15, <1>16, <1>17, <1>18, <1>19 DEF Core

-----------------------------------------------------------------------------
(* Steps that move the running context.                                    *)

\* The top process of a terminal without the CPU is not the running context.
LEMMA OthersTop ==
    ASSUME TypeOK, Core, NEW t \in Terminals \ {current_process}, schedule_top[t] > 0
    PROVE  Top(t) \in live /\ Top(t) # cpu
<1>1. Top(t) \in live /\ Top(t) # 0 /\ schedule_top[t] - 1 \in OnStack(t)
  BY OnStackLive
<1>2. CASE cpu = 0
  BY <1>1, <1>2
<1>3. CASE cpu # 0
  <2> DEFINE u == current_process
  <2>1. u \in Terminals /\ schedule_top[u] - 1 \in OnStack(u)
        /\ cpu = schedule_stack[u][schedule_top[u] - 1]
    BY <1>3, OnStackLive DEF TypeOK, Core, CpuPlace, Top
  <2>2. schedule_stack[t][schedule_top[t] - 1] # schedule_stack[u][schedule_top[u] - 1]
    BY <1>1, <2>1 DEF Core, Distinct
  <2> QED BY <1>1, <2>1, <2>2 DEF Top
<1> QED BY <1>2, <1>3

\* The top process of a terminal is a context.
LEMMA TopContext ==
    ASSUME TypeOK, Core, NEW t \in Terminals, schedule_top[t] > 0
    PROVE  Top(t) \in Contexts
<1>1. Top(t) \in live
  BY OnStackLive
<1>2. live \subseteq Contexts
  BY MaxProcessesAssumption DEF TypeOK, Pids, Contexts
<1> QED BY <1>1, <1>2

\* A context that runs user code or waits with interrupts on belongs to a process.
LEMMA CpuIsProcess ==
    ASSUME TypeOK, Core, pc[cpu] \in {"user", "read", "window"}
    PROVE  /\ cpu # 0 /\ cpu \in live /\ cpu \in Contexts /\ cpu = current_pid
           /\ schedule_top[current_process] > 0 /\ Top(current_process) = cpu
           /\ pc[0] = "exec"
BY OnStackLive DEF Core, CpuPlace, TypeOK

\* The running context moves to another place of user code or of a system call.
LEMMA PlaceCore ==
    ASSUME TypeOK, Core, cpu # 0, kbd[cpu] = << >>,
           NEW a \in {"user", "read", "window"},
           pc' = [pc EXCEPT ![cpu] = a],
           UNCHANGED <<procVars, schedVars, termVars, tickVars, current_pid, cpu, kbd, mode>>,
           Waiting'
    PROVE  Core'
<1>1. UNCHANGED <<live, parent, stack_pos, num_active_processes, schedule_top, schedule_stack,
                  schedule_esp, current_terminal, terminal_running, current_process,
                  terminal_request, current_pid, cpu, kbd, mode>>
  BY DEF procVars, schedVars, termVars, tickVars
<1>2. /\ \A d \in Contexts : d # cpu => pc'[d] = pc[d]
      /\ pc'[cpu] = a /\ 0 \in Contexts /\ live \subseteq Contexts
  BY MaxProcessesAssumption DEF TypeOK, Pids, Contexts
<1>3. /\ pc[cpu] \in {"user", "read", "window", "halted"} /\ pc[0] = "exec"
  BY DEF Core, CpuPlace
<1>4. Chained'
  <2> SUFFICES ASSUME NEW t \in Terminals, NEW i \in OnStack(t)
               PROVE  Link(t, i)'
    BY <1>1 DEF Chained, OnStack
  <2>1. Link(t, i)
    BY DEF Core, Chained
  <2>2. pc[schedule_stack[t][i]] = "exec" => pc'[schedule_stack[t][i]] = "exec"
    BY <1>2, <1>3, <2>1 DEF Link
  <2> QED BY <1>1, <2>1, <2>2 DEF Link
<1>5. AllScheduled' /\ Distinct'
  BY <1>1 DEF Core, AllScheduled, Distinct, OnStack
<1>6. Saved'
  <2> SUFFICES ASSUME NEW t \in Terminals \ {current_process}, schedule_top[t] > 0
               PROVE  SavedAt(t)'
    BY <1>1 DEF Saved
  <2>1. SavedAt(t)
    BY DEF Core, Saved
  <2>2. pc'[Top(t)] = pc[Top(t)] /\ Top(t)' = Top(t)
    BY <1>1, <1>2, OthersTop DEF Top
  <2> QED BY <1>1, <2>1, <2>2 DEF SavedAt, Reaches, Looping
<1>7. CpuPlace'
  BY <1>1, <1>2, <1>3 DEF Core, CpuPlace, Top
<1>8. Nesting'
  <2> SUFFICES ASSUME NEW d \in Contexts
               PROVE  /\ Len(kbd[d]) <= MaxNest
                      /\ pc'[d] \notin {"read", "window", "halted"} => kbd[d] = << >>
    BY <1>1 DEF Nesting
  <2> QED BY <1>2 DEF Core, Nesting
<1>9. Running'
  BY <1>1 DEF Core, Running
<1> QED BY <1>1, <1>4, <1>5, <1>6, <1>7, <1>8, <1>9 DEF Core

\* A switch handler starts or ends on top of the running context.
LEMMA KbdCore ==
    ASSUME TypeOK, Core, pc[cpu] \in {"read", "window", "halted"},
           NEW h \in Seq(Handlers), Len(h) <= MaxNest,
           kbd' = [kbd EXCEPT ![cpu] = h],
           UNCHANGED <<procVars, schedVars, readVars, terminal_running, current_process,
                       current_pid, cpu, pc, mode>>,
           terminal_request' # -1 => terminal_running[terminal_request'] = 1
    PROVE  Core'
<1>1. UNCHANGED <<live, parent, stack_pos, num_active_processes, schedule_top, schedule_stack,
                  schedule_esp, terminal_running, current_process, return_switch, cip,
                  current_pid, cpu, pc, mode>>
  BY DEF procVars, schedVars, readVars
<1>2. /\ \A d \in Contexts : d # cpu => kbd'[d] = kbd[d]
      /\ kbd'[cpu] = h /\ live \subseteq Contexts
  BY MaxProcessesAssumption DEF TypeOK, Pids, Contexts
<1>3. Chained' /\ AllScheduled' /\ Distinct' /\ Waiting'
  BY <1>1 DEF Core, Chained, Link, AllScheduled, Distinct, OnStack, Waiting, Top
<1>4. Saved'
  <2> SUFFICES ASSUME NEW t \in Terminals \ {current_process}, schedule_top[t] > 0
               PROVE  SavedAt(t)'
    BY <1>1 DEF Saved
  <2>1. SavedAt(t)
    BY DEF Core, Saved
  <2>2. kbd'[Top(t)] = kbd[Top(t)] /\ Top(t)' = Top(t)
    BY <1>1, <1>2, OthersTop DEF Top
  <2> QED BY <1>1, <2>1, <2>2 DEF SavedAt, Reaches, Looping
<1>5. CpuPlace'
  BY <1>1 DEF Core, CpuPlace, Top
<1>6. Nesting'
  <2> SUFFICES ASSUME NEW d \in Contexts
               PROVE  /\ Len(kbd'[d]) <= MaxNest
                      /\ pc[d] \notin {"read", "window", "halted"} => kbd'[d] = << >>
    BY <1>1 DEF Nesting
  <2> QED BY <1>2 DEF Core, Nesting
<1>7. Running'
  BY <1>1 DEF Core, Running
<1> QED BY <1>1, <1>3, <1>4, <1>5, <1>6, <1>7 DEF Core

\* Interrupts are on only where the running context has opened a window.
LEMMA OpenWindow ==
    ASSUME TypeOK, Core, InterruptsOn
    PROVE  pc[cpu] \in {"read", "window", "halted"}
BY DEF TypeOK, Core, Nesting, InterruptsOn

\* Only the handlers on the running context change.
LEMMA HandlersStep ==
    ASSUME hazard = {}, TypeOK, Core, pc[cpu] \in {"read", "window", "halted"},
           NEW h \in Seq(Handlers), Len(h) <= MaxNest, kbd' = [kbd EXCEPT ![cpu] = h],
           UNCHANGED <<procVars, schedVars, termVars, tickVars, readVars, current_pid, cpu, pc, mode, hazard>>
    PROVE  TypeOK' /\ Core'
<1>1. TypeOK'
  BY DEF TypeOK, procVars, schedVars, termVars, tickVars, readVars
<1>2. terminal_request' # -1 => terminal_running[terminal_request'] = 1
  BY DEF Core, Running, tickVars
<1>3. UNCHANGED <<procVars, schedVars, readVars, terminal_running, current_process,
                  current_pid, cpu, pc, mode>>
  BY DEF termVars, tickVars
<1>4. Core'
  BY <1>2, <1>3, KbdCore
<1> QED BY <1>1, <1>4

-----------------------------------------------------------------------------
(* The actions, from a state in which no hazard has happened.              *)

\* Boot starts the first shell on the displayed terminal, whose stack is empty.
LEMMA BootStep ==
    ASSUME hazard = {}, TypeOK, Core, Boot
    PROVE  TypeOK' /\ Core'
<1>1. /\ pc[cpu] = "boot" /\ execute(0, current_pid, current_terminal)
      /\ UNCHANGED <<current_terminal, current_process, terminal_request, schedule_tick,
                     return_switch, cip, mode, hazard>>
  BY DEF Boot, SENTINEL_PROCESS, tickVars, readVars
<1>2. /\ cpu = 0 /\ current_pid = 0 /\ schedule_top[current_process] = 0
      /\ current_terminal = current_process /\ pc[0] = "boot"
      /\ 0 \in Contexts /\ current_terminal \in Terminals /\ current_pid \in Contexts
  BY <1>1, MaxProcessesAssumption DEF Core, CpuPlace, TypeOK, Contexts
<1>3. TypeOK'
  BY <1>1, <1>2, ExecuteType DEF TypeOK
<1>4. \A u \in Terminals \ {current_terminal} : schedule_top[u] > 0 => SavedAt(u)
  BY <1>2 DEF Core, Saved
<1>5. UNCHANGED <<readVars, mode, terminal_request>> /\ current_process' = current_terminal
  BY <1>1, <1>2 DEF readVars
<1>6. execute(0, 0, current_terminal)
  BY <1>1, <1>2
<1>7. Core'
  BY <1>2, <1>4, <1>5, <1>6, ExecuteCore
<1> QED BY <1>3, <1>7

\* execute puts the child above its caller when the caller's terminal is displayed.
LEMMA SysExecuteStep ==
    ASSUME hazard = {}, TypeOK, Core, NEW c \in Contexts, SysExecute(c)
    PROVE  TypeOK' /\ (hazard' = {} => Core')
<1>1. /\ cpu = c /\ pc[c] = "user" /\ execute(c, current_pid, current_terminal)
      /\ hazard' = hazard \cup ExecHazard
      /\ UNCHANGED <<current_terminal, current_process, terminal_request, schedule_tick,
                     return_switch, cip, mode>>
  BY DEF SysExecute, InUser, tickVars, readVars
<1>2. /\ c # 0 /\ current_pid = c /\ current_terminal \in Terminals
  BY <1>1, CpuIsProcess DEF TypeOK
<1>3. hazard' \subseteq Hazards
  BY <1>1 DEF ExecHazard, Hazards
<1>4. TypeOK'
  BY <1>1, <1>2, <1>3, ExecuteType DEF TypeOK
<1>5. ASSUME hazard' = {}
      PROVE  Core'
  <2>1. current_terminal = current_process
    BY <1>1, <1>5 DEF ExecHazard
  <2>2. \A u \in Terminals \ {current_terminal} : schedule_top[u] > 0 => SavedAt(u)
    BY <2>1 DEF Core, Saved
  <2>3. UNCHANGED <<readVars, mode, terminal_request>> /\ current_process' = current_terminal
    BY <1>1, <2>1 DEF readVars
  <2>4. execute(c, c, current_terminal)
    BY <1>1, <1>2
  <2> QED BY <1>1, <1>2, <2>1, <2>2, <2>3, <2>4, ExecuteCore
<1> QED BY <1>4, <1>5

\* The tail of execute restarts a root shell or returns to the parent.
LEMMA AfterHaltedStep ==
    ASSUME hazard = {}, TypeOK, Core, NEW c \in Contexts, AfterHalted(c)
    PROVE  TypeOK' /\ (hazard' = {} => Core')
<1>1. /\ cpu = c /\ pc[c] = "halted" /\ kbd[c] = << >>
      /\ UNCHANGED <<current_terminal, current_process, terminal_request, schedule_tick,
                     return_switch, cip, mode>>
  BY DEF AfterHalted, tickVars, readVars
<1>2. cpu = current_pid /\ current_terminal \in Terminals
  BY DEF Core, CpuPlace, TypeOK
<1>3. CASE /\ current_pid = 0 /\ execute(c, current_pid, current_terminal)
           /\ hazard' = hazard \cup ExecHazard
  <2>1. c = 0 /\ schedule_top[current_process] = 0
    BY <1>1, <1>2, <1>3 DEF Core, CpuPlace
  <2>2. hazard' \subseteq Hazards
    BY <1>3 DEF ExecHazard, Hazards
  <2>3. TypeOK'
    BY <1>1, <1>2, <1>3, <2>2, ExecuteType DEF TypeOK
  <2>4. ASSUME hazard' = {}
        PROVE  Core'
    <3>1. current_terminal = current_process
      BY <1>3, <2>4 DEF ExecHazard
    <3>2. \A u \in Terminals \ {current_terminal} : schedule_top[u] > 0 => SavedAt(u)
      BY <3>1 DEF Core, Saved
    <3>3. UNCHANGED <<readVars, mode, terminal_request>> /\ current_process' = current_terminal
      BY <1>1, <3>1 DEF readVars
    <3>4. execute(c, c, current_terminal)
      BY <1>3, <2>1
    <3> QED BY <1>1, <1>2, <2>1, <3>1, <3>2, <3>3, <3>4, ExecuteCore
  <2> QED BY <2>3, <2>4
<1>4. CASE /\ current_pid # 0
           /\ pc' = [pc EXCEPT ![c] = "user"]
           /\ UNCHANGED <<procVars, schedVars, terminal_running, current_pid, cpu, kbd, hazard>>
  <2>1. TypeOK'
    BY <1>1, <1>4 DEF TypeOK, procVars, schedVars, Places
  <2>2. UNCHANGED <<procVars, schedVars, termVars, tickVars, current_pid, cpu, kbd, mode>>
    BY <1>1, <1>4 DEF termVars, tickVars
  <2>3. Waiting'
    <3> SUFFICES ASSUME NEW t \in Terminals, return_switch[t]
                 PROVE  schedule_top[t] > 0 /\ pc'[Top(t)] = "read" /\ cip[Top(t)] = t
      BY <1>1, <1>4 DEF Waiting, Top, schedVars
    <3>1. schedule_top[t] > 0 /\ pc[Top(t)] = "read" /\ cip[Top(t)] = t
      BY DEF Core, Waiting
    <3>2. Top(t) \in Contexts
      BY <3>1, TopContext
    <3> QED BY <1>1, <1>4, <3>1, <3>2 DEF TypeOK
  <2>4. Core'
    BY <1>1, <1>2, <1>4, <2>2, <2>3, PlaceCore
  <2> QED BY <2>1, <2>4
<1> QED BY <1>3, <1>4 DEF AfterHalted, SENTINEL_PROCESS

\* terminal_read switches on the return switch of the terminal of its caller.
LEMMA SysReadStep ==
    ASSUME hazard = {}, TypeOK, Core, NEW c \in Contexts, SysRead(c)
    PROVE  TypeOK' /\ Core'
<1>1. /\ cpu = c /\ pc[c] = "user" /\ pc' = [pc EXCEPT ![c] = "read"]
      /\ return_switch' = [return_switch EXCEPT ![current_process] = TRUE]
      /\ cip' = [cip EXCEPT ![c] = current_process]
      /\ UNCHANGED <<procVars, schedVars, termVars, tickVars, current_pid, cpu, kbd, mode, hazard>>
  BY DEF SysRead, InUser
<1>2. c # 0 /\ kbd[c] = << >> /\ current_process \in Terminals
      /\ schedule_top[current_process] > 0 /\ Top(current_process) = c
  BY <1>1, CpuIsProcess DEF Core, Nesting, TypeOK
<1>3. TypeOK'
  BY <1>1, <1>2 DEF TypeOK, procVars, schedVars, termVars, tickVars, Places
<1>4. Waiting'
  <2> SUFFICES ASSUME NEW t \in Terminals, return_switch'[t]
               PROVE  schedule_top[t] > 0 /\ pc'[Top(t)] = "read" /\ cip'[Top(t)] = t
    BY <1>1 DEF Waiting, Top, schedVars
  <2>1. CASE t = current_process
    BY <1>1, <1>2, <2>1 DEF TypeOK
  <2>2. CASE t # current_process
    <3>1. schedule_top[t] > 0 /\ pc[Top(t)] = "read" /\ cip[Top(t)] = t
      BY <1>1, <2>2 DEF Core, Waiting, TypeOK
    <3>2. Top(t) \in Contexts /\ Top(t) # c
      BY <1>1, <2>2, <3>1, OthersTop, TopContext
    <3> QED BY <1>1, <3>1, <3>2 DEF TypeOK
  <2> QED BY <2>1, <2>2
<1>5. Core'
  BY <1>1, <1>2, <1>4, PlaceCore
<1> QED BY <1>3, <1>5

\* The reader leaves only when its own return switch is off.
LEMMA ReadDoneStep ==
    ASSUME hazard = {}, TypeOK, Core, NEW c \in Contexts, ReadDone(c)
    PROVE  TypeOK' /\ Core'
<1>1. /\ cpu = c /\ pc[c] = "read" /\ kbd[c] = << >> /\ ~return_switch[cip[c]]
      /\ pc' = [pc EXCEPT ![c] = "window"]
      /\ cip' = [cip EXCEPT ![c] = 0] /\ return_switch' = return_switch
      /\ UNCHANGED <<procVars, schedVars, termVars, tickVars, current_pid, cpu, kbd, mode, hazard>>
  BY DEF ReadDone
<1>2. c # 0 /\ 0 \in Terminals
  BY <1>1, CpuIsProcess, NumTerminalsAssumption DEF Terminals
<1>3. TypeOK'
  BY <1>1, <1>2 DEF TypeOK, procVars, schedVars, termVars, tickVars, Places
<1>4. Waiting'
  <2> SUFFICES ASSUME NEW t \in Terminals, return_switch[t]
               PROVE  schedule_top[t] > 0 /\ pc'[Top(t)] = "read" /\ cip'[Top(t)] = t
    BY <1>1 DEF Waiting, Top, schedVars
  <2>1. schedule_top[t] > 0 /\ pc[Top(t)] = "read" /\ cip[Top(t)] = t
    BY DEF Core, Waiting
  <2>2. Top(t) \in Contexts /\ Top(t) # c
    BY <1>1, <2>1, TopContext
  <2> QED BY <1>1, <2>1, <2>2 DEF TypeOK
<1>5. Core'
  BY <1>1, <1>2, <1>4, PlaceCore
<1> QED BY <1>3, <1>5

\* The other system calls open and close a window.
LEMMA WindowStep ==
    ASSUME hazard = {}, TypeOK, Core, NEW c \in Contexts, SysWrite(c) \/ WindowClose(c)
    PROVE  TypeOK' /\ Core'
<1>1. PICK a \in {"user", "window"} :
        /\ cpu = c /\ pc[c] \in {"user", "window"} /\ pc' = [pc EXCEPT ![c] = a]
        /\ UNCHANGED <<procVars, schedVars, termVars, tickVars, readVars, current_pid, cpu, kbd,
                       mode, hazard>>
  BY DEF SysWrite, WindowClose, InUser
<1>2. c # 0 /\ kbd[c] = << >>
  <2>1. c # 0
    BY <1>1, CpuIsProcess
  <2>2. kbd[c] = << >>
    BY <1>1 DEF SysWrite, WindowClose, InUser, Core, Nesting
  <2> QED BY <2>1, <2>2
<1>3. TypeOK'
  BY <1>1 DEF TypeOK, procVars, schedVars, termVars, tickVars, readVars, Places
<1>4. Waiting'
  <2> SUFFICES ASSUME NEW t \in Terminals, return_switch[t]
               PROVE  schedule_top[t] > 0 /\ pc'[Top(t)] = "read" /\ cip[Top(t)] = t
    BY <1>1 DEF Waiting, Top, schedVars, readVars
  <2>1. schedule_top[t] > 0 /\ pc[Top(t)] = "read" /\ cip[Top(t)] = t
    BY DEF Core, Waiting
  <2>2. Top(t) \in Contexts /\ Top(t) # c
    BY <1>1, <2>1, TopContext
  <2> QED BY <1>1, <2>1, <2>2 DEF TypeOK
<1>5. Core'
  BY <1>1, <1>2, <1>4, PlaceCore
<1> QED BY <1>3, <1>5

\* The return key only switches a return switch off.
LEMMA KeyEnterStep ==
    ASSUME hazard = {}, TypeOK, Core, KeyEnter
    PROVE  TypeOK' /\ Core'
<1>1. /\ return_switch' = [return_switch EXCEPT ![current_terminal] = FALSE]
      /\ UNCHANGED <<live, parent, stack_pos, num_active_processes, schedule_top, schedule_stack,
                     schedule_esp, current_terminal, terminal_running, current_process,
                     terminal_request, schedule_tick, cip, current_pid, cpu, pc, kbd, mode, hazard>>
  BY DEF KeyEnter, procVars, schedVars, termVars, tickVars
<1>2. TypeOK'
  BY <1>1 DEF TypeOK
<1>3. Waiting'
  <2>1. \A t \in Terminals : return_switch'[t] => return_switch[t]
    BY <1>1 DEF TypeOK
  <2> QED BY <1>1, <2>1 DEF Core, Waiting, Top
<1>4. Chained' /\ AllScheduled' /\ Distinct'
  BY <1>1 DEF Core, Chained, Link, AllScheduled, Distinct, OnStack
<1>5. Saved' /\ CpuPlace' /\ Nesting' /\ Running'
  BY <1>1 DEF Core, Saved, SavedAt, Reaches, Looping, CpuPlace, Nesting, Running, Top
<1> QED BY <1>1, <1>2, <1>3, <1>4, <1>5 DEF Core

\* terminal_switch to a running terminal asks the timer for one that has a shell.
LEMMA KeySwitchRunningStep ==
    ASSUME hazard = {}, TypeOK, Core, NEW num \in Terminals, KeySwitchRunning(num)
    PROVE  TypeOK' /\ Core'
<1>1. /\ InterruptsOn /\ terminal_running[num] = 1 /\ Len(kbd[cpu]) < MaxNest
      /\ current_terminal' = num /\ terminal_request' = num
      /\ kbd' = [kbd EXCEPT ![cpu] = Append(kbd[cpu], schedule_tick)]
      /\ UNCHANGED <<procVars, schedVars, readVars, terminal_running, current_process,
                     schedule_tick, current_pid, cpu, pc, mode, hazard>>
  BY DEF KeySwitchRunning
<1>2. PICK h \in Seq(Handlers) : h = Append(kbd[cpu], schedule_tick) /\ Len(h) <= MaxNest
  <2>1. kbd[cpu] \in Seq(Handlers) /\ schedule_tick \in Handlers
    BY DEF TypeOK, Handlers, Ticked
  <2>2. Append(kbd[cpu], schedule_tick) \in Seq(Handlers)
        /\ Len(Append(kbd[cpu], schedule_tick)) = Len(kbd[cpu]) + 1
    BY <2>1, AppendProperties
  <2>3. Len(kbd[cpu]) \in Nat
    BY <2>1
  <2>4. Len(Append(kbd[cpu], schedule_tick)) <= MaxNest
    BY <1>1, <2>2, <2>3, MaxNestAssumption
  <2> QED BY <2>2, <2>4, Zenon
<1>3. TypeOK'
  BY <1>1, <1>2 DEF TypeOK, procVars, schedVars, readVars
<1>4. pc[cpu] \in {"read", "window", "halted"}
  BY <1>1, OpenWindow
<1>5. Core'
  BY <1>1, <1>2, <1>4, KbdCore
<1> QED BY <1>3, <1>5

\* A key is echoed: its handler is one more on the stack.
LEMMA KeyEchoStep ==
    ASSUME hazard = {}, TypeOK, Core, KeyEcho
    PROVE  TypeOK' /\ Core'
<1>1. /\ InterruptsOn /\ Len(kbd[cpu]) < MaxNest
      /\ kbd' = [kbd EXCEPT ![cpu] = Append(kbd[cpu], ENDING)]
      /\ UNCHANGED <<procVars, schedVars, termVars, tickVars, readVars, current_pid, cpu, pc, mode, hazard>>
  BY DEF KeyEcho
<1>2. PICK h \in Seq(Handlers) : h = Append(kbd[cpu], ENDING) /\ Len(h) <= MaxNest
  <2>1. kbd[cpu] \in Seq(Handlers) /\ ENDING \in Handlers
    BY DEF TypeOK, Handlers
  <2>2. Append(kbd[cpu], ENDING) \in Seq(Handlers)
        /\ Len(Append(kbd[cpu], ENDING)) = Len(kbd[cpu]) + 1
    BY <2>1, AppendProperties
  <2>3. Len(kbd[cpu]) \in Nat
    BY <2>1
  <2>4. Len(Append(kbd[cpu], ENDING)) <= MaxNest
    BY <1>1, <2>2, <2>3, MaxNestAssumption
  <2> QED BY <2>2, <2>4, Zenon
<1>3. pc[cpu] \in {"read", "window", "halted"}
  BY <1>1, OpenWindow
<1> QED BY <1>1, <1>2, <1>3, HandlersStep

\* The wait of a switch is over, or a handler returns.
LEMMA HandlerStep ==
    ASSUME hazard = {}, TypeOK, Core, NEW c \in Contexts, SwitchEnds(c) \/ HandlerReturns(c)
    PROVE  TypeOK' /\ Core'
<1> DEFINE r == SubSeq(kbd[c], 1, Len(kbd[c]) - 1)
<1>1. /\ cpu = c /\ kbd[c] # << >>
      /\ kbd' = [kbd EXCEPT ![c] = r] \/ kbd' = [kbd EXCEPT ![c] = Append(r, ENDING)]
      /\ UNCHANGED <<procVars, schedVars, termVars, tickVars, readVars, current_pid, cpu, pc, mode, hazard>>
  BY DEF SwitchEnds, HandlerReturns
<1>2. PICK h \in Seq(Handlers) : kbd' = [kbd EXCEPT ![cpu] = h] /\ Len(h) <= MaxNest
  <2>1. kbd[c] \in Seq(Handlers) /\ Len(kbd[c]) \in Nat \ {0} /\ Len(kbd[c]) <= MaxNest
    BY <1>1 DEF TypeOK, Core, Nesting
  <2>2. r \in Seq(Handlers) /\ Len(r) = Len(kbd[c]) - 1
    BY <2>1, SubSeqProperties
  <2> HIDE DEF r
  <2>3. Append(r, ENDING) \in Seq(Handlers) /\ Len(Append(r, ENDING)) = Len(r) + 1
    BY <2>2, AppendProperties DEF Handlers
  <2>4. Len(r) <= MaxNest /\ Len(Append(r, ENDING)) <= MaxNest
    BY <2>1, <2>2, <2>3, MaxNestAssumption
  <2> QED BY <1>1, <2>2, <2>3, <2>4, Zenon
<1>3. pc[cpu] \in {"read", "window", "halted"}
  BY <1>1, OpenWindow DEF InterruptsOn
<1> QED BY <1>1, <1>2, <1>3, HandlersStep

\* terminal_switch starts a shell on an empty stack; the interrupted reader was saved.
LEMMA KeySwitchNewStep ==
    ASSUME hazard = {}, TypeOK, Core, NEW num \in Terminals, KeySwitchNew(num)
    PROVE  TypeOK' /\ (hazard' = {} => Core')
<1>1. /\ terminal_running[num] = 0
      /\ current_terminal' = num /\ current_process' = num
      /\ execute(0, 0, num)
      /\ hazard' = hazard \cup IF Resumable THEN {} ELSE {"open_unsaved"}
      /\ UNCHANGED <<terminal_request, schedule_tick, return_switch, cip, mode>>
  BY DEF KeySwitchNew, SENTINEL_PROCESS, readVars
<1>2. 0 \in Contexts
  BY MaxProcessesAssumption DEF Contexts
<1>3. hazard' \subseteq Hazards
  BY <1>1 DEF Hazards
<1>4. TypeOK'
  BY <1>1, <1>2, <1>3, ExecuteType DEF TypeOK
<1>5. ASSUME hazard' = {}
      PROVE  Core'
  <2>1. Resumable
    BY <1>1, <1>5
  <2>2. cpu # 0 /\ schedule_top[current_process] > 0 /\ Top(current_process) = cpu
        /\ pc[0] # "read"
    BY <2>1 DEF Resumable, Core, CpuPlace, TypeOK
  <2>3. SavedAt(current_process)
    BY <2>1, <2>2 DEF Resumable, SlotOfCurrent, SavedAt
  <2>4. \A u \in Terminals \ {num} : schedule_top[u] > 0 => SavedAt(u)
    BY <2>3 DEF Core, Saved
  <2>5. schedule_top[num] = 0
    BY <1>1 DEF Core, Running
  <2>6. UNCHANGED <<readVars, mode, terminal_request>>
    BY <1>1 DEF readVars
  <2> QED BY <1>1, <1>2, <2>2, <2>4, <2>5, <2>6, ExecuteCore
<1> QED BY <1>4, <1>5

\* What halt finds: the running process on top of its stack, its parent below it
\* waiting in execute, or nobody and context 0.
LEMMA HaltFinds ==
    ASSUME TypeOK, Core, NEW c \in Contexts, cpu = c, pc[c] = "user"
    PROVE  /\ c # 0 /\ c \in live /\ c = current_pid /\ kbd[c] = << >>
           /\ schedule_top[current_process] \in 1 .. MAX_PROCESSES
           /\ schedule_stack[current_process][schedule_top[current_process] - 1] = c
           /\ parent[c] = stack_pos[c] /\ pc[stack_pos[c]] = "exec" /\ stack_pos[c] # c
           /\ schedule_top[current_process] = 1 => stack_pos[c] = 0
           /\ schedule_top[current_process] > 1 =>
                 /\ stack_pos[c] = schedule_stack[current_process][schedule_top[current_process] - 2]
                 /\ stack_pos[c] \in live /\ stack_pos[c] # 0
<1> DEFINE t == current_process
           n == schedule_top[t]
<1>1. c # 0 /\ c \in live /\ c = current_pid /\ n > 0 /\ Top(t) = c /\ pc[0] = "exec" /\ t \in Terminals
  BY CpuIsProcess DEF TypeOK
<1>2. kbd[c] = << >>
  BY DEF Core, Nesting
<1>3. n \in 1 .. MAX_PROCESSES /\ schedule_stack[t][n - 1] = c
  BY <1>1, OnStackLive DEF Top
<1>4. n - 1 \in OnStack(t) /\ (n > 1 => n - 2 \in OnStack(t))
  BY <1>3, MaxProcessesAssumption DEF OnStack
<1>5. Link(t, n - 1) /\ (n > 1 => Link(t, n - 2))
  BY <1>1, <1>4 DEF Core, Chained
<1>6. parent[c] = stack_pos[c] /\ (n = 1 => stack_pos[c] = 0)
      /\ (n > 1 => stack_pos[c] = schedule_stack[t][n - 2])
  BY <1>3, <1>5, MaxProcessesAssumption DEF Link
<1>7. n > 1 => stack_pos[c] \in live /\ stack_pos[c] # 0 /\ pc[stack_pos[c]] = "exec"
  BY <1>1, <1>3, <1>4, <1>5, <1>6, OnStackLive DEF Link
<1>8. pc[stack_pos[c]] = "exec"
  BY <1>1, <1>3, <1>6, <1>7
<1> QED BY <1>1, <1>2, <1>3, <1>6, <1>7, <1>8

\* halt pops the running process and goes on in its parent, or in context 0.
LEMMA SysHaltStep ==
    ASSUME hazard = {}, TypeOK, Core, NEW c \in Contexts, SysHalt(c)
    PROVE  TypeOK' /\ Core'
<1> SUFFICES ASSUME NEW t \in Terminals, t = current_process,
                    NEW n, n = schedule_top[t], NEW back, back = stack_pos[c]
             PROVE  TypeOK' /\ Core'
  BY DEF TypeOK
<1>1. cpu = c /\ pc[c] = "user"
  BY DEF SysHalt, InUser
<1>2. /\ c # 0 /\ c \in live /\ c = current_pid /\ kbd[c] = << >>
      /\ n \in 1 .. MAX_PROCESSES /\ schedule_stack[t][n - 1] = c
      /\ parent[c] = back /\ pc[back] = "exec" /\ back # c
      /\ n = 1 => back = 0
      /\ n > 1 => back = schedule_stack[t][n - 2] /\ back \in live /\ back # 0
  BY <1>1, HaltFinds
<1>3. /\ live' = live \ {c} /\ num_active_processes' = num_active_processes - 1
      /\ current_pid' = back /\ cpu' = back
      /\ pc' = [pc EXCEPT ![c] = "dead", ![back] = "halted"]
      /\ UNCHANGED <<parent, stack_pos, current_terminal, terminal_running, current_process,
                     terminal_request, schedule_tick, return_switch, cip, kbd, hazard>>
  BY <1>2 DEF SysHalt, destroy_pcb, termVars, tickVars, readVars
<1>4. /\ mode' = mode
      /\ schedule_top' = [schedule_top EXCEPT ![t] = n - 1]
      /\ schedule_stack' = [schedule_stack EXCEPT ![t][n - 1] = 0]
      /\ schedule_esp' = [schedule_esp EXCEPT ![t][n - 1] = NotSaved]
  BY <1>2, MaxProcessesAssumption DEF SysHalt, deschedule
<1>5. back \in Contexts /\ 0 \in Contexts /\ live \subseteq Contexts /\ n - 1 \in Slots /\ n \in Nat
  <2>1. back \in Contexts /\ 0 \in Contexts /\ live \subseteq Contexts
    BY MaxProcessesAssumption DEF TypeOK, Contexts, Pids
  <2> QED BY <1>2, <2>1, MaxProcessesAssumption DEF Slots, TOTAL_PROCESSES
<1>6. num_active_processes' = Cardinality(live') /\ num_active_processes' \in 0 .. MAX_PROCESSES
  <2>1. IsFiniteSet(live) /\ Cardinality(live) \in 0 .. MAX_PROCESSES
    BY LiveFinite DEF TypeOK
  <2>2. Cardinality(live \ {c}) = Cardinality(live) - 1
    BY <1>2, <2>1, FS_RemoveElement
  <2>3. Cardinality(live) # 0
    BY <1>2, <2>1, FS_EmptySet
  <2> QED BY <1>3, <2>1, <2>2, <2>3, MaxProcessesAssumption DEF Core
<1>7. TypeOK'
  <2>1. schedule_top' \in [Terminals -> 0 .. TOTAL_PROCESSES]
    <3>1. n - 1 \in 0 .. TOTAL_PROCESSES
      BY <1>2, <1>5, MaxProcessesAssumption DEF TOTAL_PROCESSES
    <3> QED BY <1>4, <3>1 DEF TypeOK
  <2>2. schedule_stack' \in [Terminals -> [Slots -> Contexts]]
    BY <1>4, <1>5 DEF TypeOK
  <2>3. NotSaved \in Position
    <3>1. 0 \in 0 .. MaxNest /\ "dead" \in Places /\ TRUE \in BOOLEAN
      BY MaxNestAssumption DEF Places
    <3> QED BY <1>5, <3>1, Zenon DEF NotSaved, Position
  <2>4. schedule_esp' \in [Terminals -> [Slots -> Position]]
    BY <1>4, <1>5, <2>3 DEF TypeOK
  <2>5. pc' \in [Contexts -> Places]
    BY <1>3, <1>5 DEF TypeOK, Places
  <2> QED BY <1>3, <1>4, <1>5, <1>6, <2>1, <2>2, <2>4, <2>5 DEF TypeOK
<1>8. /\ \A u \in Terminals \ {t} : /\ schedule_top'[u] = schedule_top[u]
                                     /\ schedule_stack'[u] = schedule_stack[u]
                                     /\ schedule_esp'[u] = schedule_esp[u]
      /\ schedule_top'[t] = n - 1
      /\ \A i \in 0 .. n - 2 : schedule_stack'[t][i] = schedule_stack[t][i]
  BY <1>4, <1>5 DEF TypeOK
<1>9. /\ \A u \in Terminals \ {t} : OnStack(u)' = OnStack(u) /\ Top(u)' = Top(u)
      /\ OnStack(t)' = 0 .. n - 2
      /\ OnStack(t) = 0 .. n - 1
  BY <1>5, <1>8 DEF OnStack, Top
<1>10. \A u \in Terminals : \A i \in OnStack(u)' :
          i \in OnStack(u) /\ schedule_stack'[u][i] = schedule_stack[u][i]
  BY <1>5, <1>8, <1>9
<1>11. /\ pc'[c] = "dead" /\ pc'[back] = "halted"
       /\ \A d \in Contexts : d # c /\ d # back => pc'[d] = pc[d]
  BY <1>2, <1>3, <1>5 DEF TypeOK
<1>12. ASSUME NEW u \in Terminals, NEW i \in OnStack(u), u # t \/ i < n - 1
       PROVE  schedule_stack[u][i] # c /\ schedule_stack[u][i] \in live
  <2>1. n - 1 \in OnStack(t)
    BY <1>5, <1>2, <1>9
  <2>2. u # t \/ i # n - 1
    BY <1>12, <1>5, <1>9
  <2>3. schedule_stack[u][i] # schedule_stack[t][n - 1]
    BY <1>1, <2>1, <2>2 DEF Core, Distinct
  <2> QED BY <1>2, <2>3, OnStackLive
<1>13. ASSUME NEW u \in Terminals, NEW i \in OnStack(u), u # t \/ i < n - 2
       PROVE  schedule_stack[u][i] # back
  <2>1. CASE n = 1
    BY <1>2, <2>1, OnStackLive
  <2>2. CASE n > 1
    <3>1. n - 2 \in OnStack(t) /\ back = schedule_stack[t][n - 2]
      BY <1>2, <1>5, <1>9, <2>2
    <3>2. u # t \/ i # n - 2
      BY <1>13, <1>5, <1>9
    <3>3. schedule_stack[u][i] # schedule_stack[t][n - 2]
      BY <1>1, <3>1, <3>2 DEF Core, Distinct
    <3> QED BY <3>1, <3>3
  <2> QED BY <1>2, <2>1, <2>2, MaxProcessesAssumption
<1>14. Chained'
  <2> SUFFICES ASSUME NEW u \in Terminals, NEW i \in OnStack(u)'
               PROVE  Link(u, i)'
    BY DEF Chained
  <2>1. i \in OnStack(u) /\ schedule_stack'[u][i] = schedule_stack[u][i] /\ i \in Int
    BY <1>10 DEF OnStack
  <2>2. Link(u, i)
    BY <2>1 DEF Core, Chained
  <2>3. u # t \/ i < n - 1
    BY <1>5, <1>9
  <2>4. schedule_stack[u][i] \in live' /\ schedule_stack[u][i] # c /\ schedule_stack[u][i] \in Contexts
    BY <1>3, <1>5, <2>1, <2>3, <1>12
  <2>5. i > 0 => schedule_stack'[u][i - 1] = schedule_stack[u][i - 1]
    <3>1. CASE u = t
      BY <3>1, <1>5, <1>8, <1>9
    <3>2. CASE u # t
      BY <3>2, <1>8
    <3> QED BY <3>1, <3>2
  <2>6. i < schedule_top'[u] - 1 => pc'[schedule_stack[u][i]] = "exec"
    <3> SUFFICES ASSUME i < schedule_top'[u] - 1
                 PROVE  pc'[schedule_stack[u][i]] = "exec"
      OBVIOUS
    <3>1. u # t \/ i < n - 2
      BY <1>5, <1>8, <2>1
    <3>2. i < schedule_top[u] - 1
      BY <1>5, <1>8, <2>1
    <3>3. schedule_stack[u][i] # back
      BY <2>1, <3>1, <1>13
    <3> QED BY <2>2, <2>4, <3>2, <3>3, <1>11 DEF Link
  <2> QED BY <1>3, <2>1, <2>2, <2>4, <2>5, <2>6 DEF Link
<1>15. AllScheduled'
  <2> SUFFICES ASSUME NEW q \in live'
               PROVE  \E u \in Terminals : \E i \in OnStack(u)' : schedule_stack'[u][i] = q
    BY DEF AllScheduled
  <2>1. q \in live /\ q # c
    BY <1>3
  <2>2. PICK u \in Terminals : \E i \in OnStack(u) : schedule_stack[u][i] = q
    BY <2>1 DEF Core, AllScheduled
  <2>3. PICK i \in OnStack(u) : schedule_stack[u][i] = q
    BY <2>2
  <2>4. u = t => i # n - 1
    BY <1>2, <2>1, <2>3
  <2>5. i \in OnStack(u)'
    BY <1>5, <1>9, <2>3, <2>4
  <2> QED BY <1>10, <2>3, <2>5
<1>16. Distinct'
  BY <1>10 DEF Core, Distinct
<1>17. ASSUME NEW u \in Terminals \ {t}, schedule_top[u] > 0
       PROVE  pc'[Top(u)] = pc[Top(u)]
  <2>1. schedule_top[u] - 1 \in OnStack(u)
    BY <1>17, OnStackLive
  <2>2. Top(u) # c /\ Top(u) # back /\ Top(u) \in live
    BY <2>1, <1>12, <1>13 DEF Top
  <2> QED BY <1>5, <1>11, <2>2
<1>18. Saved'
  <2> SUFFICES ASSUME NEW u \in Terminals \ {t}, schedule_top[u] > 0
               PROVE  SavedAt(u)'
    BY <1>3, <1>8 DEF Saved
  <2>1. SavedAt(u)
    BY DEF Core, Saved
  <2> QED BY <1>3, <1>8, <1>9, <1>17, <2>1 DEF SavedAt, Reaches, Looping
<1>19. CpuPlace'
  <2>1. CASE n = 1
    BY <2>1, <1>2, <1>3, <1>8, <1>11 DEF CpuPlace
  <2>2. CASE n > 1
    <3>1. Top(t)' = back
      BY <2>2, <1>2, <1>5, <1>8 DEF Top
    <3>2. pc'[0] = pc[0] /\ pc[0] = "exec"
      BY <2>2, <1>1, <1>2, <1>5, <1>11 DEF Core, CpuPlace
    <3> QED BY <2>2, <3>1, <3>2, <1>2, <1>3, <1>5, <1>8, <1>11 DEF CpuPlace
  <2> QED BY <2>1, <2>2, <1>2, <1>5
<1>20. Nesting'
  <2> SUFFICES ASSUME NEW d \in Contexts
               PROVE  /\ Len(kbd[d]) <= MaxNest
                      /\ pc'[d] \notin {"read", "window", "halted"} => kbd[d] = << >>
    BY <1>3 DEF Nesting
  <2> QED BY <1>2, <1>11 DEF Core, Nesting
<1>21. Running'
  <2>1. \A u \in Terminals : terminal_running[u] = 0 => u # t
    BY <1>2, <1>5 DEF Core, Running
  <2>2. \A u \in Terminals : terminal_running[u] = 1 => schedule_top[u] > 0
    BY <1>1, <1>2 DEF Core, Running
  <2>3. n = 1 \/ n - 1 > 0
    BY <1>2, <1>5
  <2>4. schedule_top'[t] > 0 \/ cpu' = 0
    BY <1>2, <1>3, <1>8, <2>3
  <2> QED BY <1>3, <1>8, <2>1, <2>2, <2>4 DEF Core, Running
<1>22. Waiting'
  <2> SUFFICES ASSUME NEW u \in Terminals, return_switch[u]
               PROVE  schedule_top'[u] > 0 /\ pc'[Top(u)'] = "read" /\ cip[Top(u)'] = u
    BY <1>3 DEF Waiting
  <2>1. schedule_top[u] > 0 /\ pc[Top(u)] = "read" /\ cip[Top(u)] = u
    BY DEF Core, Waiting
  <2>2. u # t
    BY <1>1, <1>2, <2>1 DEF Top
  <2> QED BY <2>1, <2>2, <1>8, <1>9, <1>17
<1>23. mode' = "run"
  BY <1>4 DEF Core
<1>24. Core'
  BY <1>6, <1>14, <1>15, <1>16, <1>18, <1>19, <1>20, <1>21, <1>22, <1>23 DEF Core
<1> QED BY <1>7, <1>24

-----------------------------------------------------------------------------
(* The tick.                                                               *)

\* The slot of the running process, and no other, is saved by a tick.
LEMMA SavedEspValue ==
    ASSUME TypeOK, Core
    PROVE  /\ SavedEsp \in [Terminals -> [Slots -> Position]]
           /\ schedule_top[current_process] > 0 =>
                SavedEsp[current_process][schedule_top[current_process] - 1] = Here
           /\ \A t \in Terminals \ {current_process} : SavedEsp[t] = schedule_esp[t]
<1> DEFINE n == schedule_top[current_process]
<1>1. Here \in Position
  BY HerePosition DEF Core
<1>2. n \in 0 .. MAX_PROCESSES /\ current_process \in Terminals
  BY OnStackLive DEF TypeOK
<1>3. n # 0 => n - 1 \in Slots
  BY <1>2, MaxProcessesAssumption DEF Slots, TOTAL_PROCESSES
<1>4. schedule_esp \in [Terminals -> [Slots -> Position]]
  BY DEF TypeOK
<1>5. CASE n = 0
  BY <1>4, <1>5 DEF SavedEsp
<1>6. CASE n # 0
  <2>1. SavedEsp = [schedule_esp EXCEPT ![current_process][n - 1] = Here]
    BY <1>6 DEF SavedEsp
  <2> QED BY <1>1, <1>2, <1>3, <1>4, <1>6, <2>1
<1> QED BY <1>5, <1>6

\* The handlers still below a saved position.
LEMMA Unwound ==
    ASSUME NEW h \in Seq(Handlers), NEW k \in Nat, k <= Len(h)
    PROVE  SubSeq(h, 1, k) \in Seq(Handlers) /\ Len(SubSeq(h, 1, k)) = k
BY SubSeqProperties

\* A tick keeps the types, even between the exit of a root shell and its restart.
LEMMA TickType ==
    ASSUME hazard = {}, TypeOK, Core, TimerTick
    PROVE  TypeOK'
<1>1. /\ hazard' = hazard \cup IF cpu = 0 THEN {"tick_at_root_exit"} ELSE {}
      /\ schedule_esp' = SavedEsp
      /\ UNCHANGED <<live, parent, stack_pos, num_active_processes, current_terminal,
                     terminal_running, return_switch, cip, schedule_top, schedule_stack, pc>>
  BY DEF TimerTick, SENTINEL_PROCESS, procVars, termVars, readVars
<1>2. hazard' \subseteq Hazards /\ schedule_esp' \in [Terminals -> [Slots -> Position]]
  BY <1>1, SavedEspValue DEF Hazards
<1>3. CASE terminal_request = -1 /\ \A t \in Terminals : schedule_top[t] = 0
  <2>1. mode' = "loop" /\ UNCHANGED <<current_process, terminal_request, schedule_tick,
                                      current_pid, cpu, kbd>>
    BY <1>3 DEF TimerTick, tickVars
  <2> QED BY <1>1, <1>2, <2>1 DEF TypeOK
<1>4. CASE ~(terminal_request = -1 /\ \A t \in Terminals : schedule_top[t] = 0)
  <2> SUFFICES ASSUME NEW next, next = IF terminal_request = -1 THEN NextTerminal ELSE terminal_request,
                      NEW top, top = schedule_top[next] - 1,
                      NEW s, s = SavedEsp[next][top]
               PROVE  TypeOK'
    OBVIOUS
  <2>1. /\ current_process' = next /\ terminal_request' = -1 /\ schedule_tick' = 1 - schedule_tick
        /\ \/ /\ top >= 0 /\ current_pid' = schedule_stack[next][top] /\ cpu' = s.ctx
              /\ \/ Usable(s) /\ kbd' = [kbd EXCEPT ![s.ctx] = SubSeq(kbd[s.ctx], 1, s.nest)]
                    /\ mode' = mode
                 \/ mode' = "fault" /\ kbd' = kbd
           \/ UNCHANGED <<current_pid, cpu, mode, kbd>>
    BY <1>4 DEF TimerTick
  <2>2. next \in Terminals
    BY <1>4, NextTerminalRuns DEF TypeOK
  <2>3. schedule_tick' \in {0, 1}
    <3>1. schedule_tick = 0 \/ schedule_tick = 1
      BY DEF TypeOK
    <3>2. 1 - schedule_tick = 0 \/ 1 - schedule_tick = 1
      BY <3>1
    <3> QED BY <2>1, <3>2
  <2>4. CASE /\ top >= 0 /\ current_pid' = schedule_stack[next][top] /\ cpu' = s.ctx
             /\ \/ Usable(s) /\ kbd' = [kbd EXCEPT ![s.ctx] = SubSeq(kbd[s.ctx], 1, s.nest)]
                   /\ mode' = mode
                \/ mode' = "fault" /\ kbd' = kbd
    <3>1. schedule_top[next] \in 0 .. MAX_PROCESSES
      BY <2>2, OnStackLive
    <3>2. top \in Slots
      <4>1. top >= 0
        BY <2>4
      <4> QED BY <3>1, <4>1, MaxProcessesAssumption DEF Slots, TOTAL_PROCESSES
    <3>3. s \in Position
      BY <2>2, <3>2, SavedEspValue
    <3>4. s.ctx \in Contexts /\ s.nest \in Nat
      BY <3>3, MaxNestAssumption DEF Position
    <3>5. current_pid' \in Contexts /\ cpu' \in Contexts
      <4>1. schedule_stack[next] \in [Slots -> Contexts]
        BY <2>2 DEF TypeOK
      <4> QED BY <2>4, <3>2, <3>4, <4>1
    <3>6. kbd' \in [Contexts -> Seq(Handlers)] /\ mode' \in {"run", "loop", "fault"}
      <4>1. CASE kbd' = kbd /\ mode' = "fault"
        BY <4>1 DEF TypeOK
      <4>2. CASE Usable(s) /\ mode' = mode /\ kbd' = [kbd EXCEPT ![s.ctx] = SubSeq(kbd[s.ctx], 1, s.nest)]
        <5>1. kbd[s.ctx] \in Seq(Handlers) /\ s.nest <= Len(kbd[s.ctx])
          <6>1. kbd[s.ctx] \in Seq(Handlers)
            BY <3>4 DEF TypeOK
          <6>2. Len(kbd[s.ctx]) \in Nat
            BY <6>1, LenProperties
          <6>3. s.nest <= Len(kbd[s.ctx]) \/ s.nest = Len(kbd[s.ctx])
            BY <4>2, Zenon DEF Usable, Reaches
          <6> QED BY <3>4, <6>1, <6>2, <6>3
        <5>2. SubSeq(kbd[s.ctx], 1, s.nest) \in Seq(Handlers)
          BY <3>4, <5>1, Unwound
        <5> QED BY <3>4, <4>2, <5>2 DEF TypeOK
      <4> QED BY <2>4, <4>1, <4>2
    <3> QED BY <1>1, <1>2, <2>1, <2>2, <2>3, <3>5, <3>6 DEF TypeOK
  <2>5. CASE UNCHANGED <<current_pid, cpu, mode, kbd>>
    BY <1>1, <1>2, <2>1, <2>2, <2>3, <2>5 DEF TypeOK
  <2> QED BY <2>1, <2>4, <2>5
<1> QED BY <1>3, <1>4

\* A tick while a process runs goes on with the top process of another terminal, or
\* of the same one, at the place where it stopped.
LEMMA TickCore ==
    ASSUME hazard = {}, TypeOK, Core, TimerTick, hazard' = {}
    PROVE  Core'
<1> SUFFICES ASSUME NEW next, next = IF terminal_request = -1 THEN NextTerminal ELSE terminal_request,
                    NEW cp \in Terminals, cp = current_process,
                    NEW s, s = SavedEsp[next][schedule_top[next] - 1]
             PROVE  Core'
  BY DEF TypeOK
<1>1. cpu # 0 /\ InterruptsOn
  BY DEF TimerTick, SENTINEL_PROCESS
<1>2. /\ schedule_top[cp] > 0 /\ Top(cp) = cpu /\ pc[0] = "exec"
      /\ pc[cpu] \in {"read", "window", "halted"}
  BY <1>1, OpenWindow DEF Core, CpuPlace
<1>3. next \in Terminals /\ schedule_top[next] > 0
  <2>1. CASE terminal_request = -1
    <3>1. next \in Terminals /\ schedule_top[next] # 0
      BY <1>2, <2>1, NextTerminalRuns
    <3> QED BY <3>1, OnStackLive
  <2>2. CASE terminal_request # -1
    BY <1>1, <2>2 DEF Core, Running, TypeOK
  <2> QED BY <2>1, <2>2
<1>4. Top(next) \in live /\ Top(next) # 0 /\ Top(next) \in Contexts
  BY <1>3, OnStackLive, TopContext
<1>5. /\ s.ctx = Top(next) /\ s.at = pc[Top(next)] /\ s.at \in {"read", "window", "halted"}
      /\ s.nest <= Len(kbd[Top(next)]) /\ s.nest \in Nat /\ s \in Position /\ Reaches(s)
  <2>1. kbd[Top(next)] \in Seq(Handlers)
    BY <1>4 DEF TypeOK
  <2>2. s \in Position
    <3>1. schedule_top[next] - 1 \in Slots
      BY <1>3, OnStackLive, MaxProcessesAssumption DEF Slots, TOTAL_PROCESSES
    <3> QED BY <1>3, <3>1, SavedEspValue
  <2>3. s.nest \in Nat
    BY <2>2, MaxNestAssumption DEF Position
  <2>4. CASE next = cp
    <3>1. s = Here
      BY <1>2, <2>4, SavedEspValue
    <3>2. s.ctx = cpu /\ s.at = pc[cpu] /\ s.nest = Len(kbd[cpu]) /\ s.looping = Looping(cpu, Len(kbd[cpu]))
      BY <3>1 DEF Here
    <3>3. Len(kbd[cpu]) \in Nat
      BY <1>2, <2>1, <2>4
    <3>4. Reaches(s)
      BY <3>2, <3>3 DEF Reaches
    <3> QED BY <1>2, <2>1, <2>2, <2>3, <2>4, <3>2, <3>3, <3>4
  <2>5. CASE next # cp
    <3>1. s = schedule_esp[next][schedule_top[next] - 1] /\ SavedAt(next)
      BY <1>3, <2>5, SavedEspValue DEF Core, Saved
    <3>2. s.ctx = Top(next) /\ s.at = pc[Top(next)] /\ s.at \in {"read", "window", "halted"} /\ Reaches(s)
      BY <3>1 DEF SavedAt
    <3>3. s.nest <= Len(kbd[Top(next)])
      BY <2>1, <2>3, <3>2 DEF Reaches
    <3> QED BY <2>2, <2>3, <3>2, <3>3
  <2> QED BY <2>4, <2>5
<1>6. s # NotSaved /\ Usable(s)
  BY <1>4, <1>5 DEF NotSaved, Usable
<1>7. /\ current_process' = next /\ terminal_request' = -1
      /\ current_pid' = Top(next) /\ cpu' = Top(next) /\ mode' = mode
      /\ kbd' = [kbd EXCEPT ![Top(next)] = SubSeq(kbd[Top(next)], 1, s.nest)]
      /\ schedule_esp' = SavedEsp
      /\ UNCHANGED <<live, parent, stack_pos, num_active_processes, current_terminal,
                     terminal_running, return_switch, cip, schedule_top, schedule_stack, pc>>
  <2>1. ~(terminal_request = -1 /\ \A t \in Terminals : schedule_top[t] = 0)
    BY <1>2
  <2>2. schedule_top[next] - 1 >= 0
    BY <1>3, OnStackLive
  <2> QED BY <1>5, <1>6, <2>1, <2>2 DEF TimerTick, Top, procVars, termVars, readVars
<1>8. /\ kbd'[Top(next)] \in Seq(Handlers) /\ Len(kbd'[Top(next)]) = s.nest
      /\ \A d \in Contexts : d # Top(next) => kbd'[d] = kbd[d]
  <2>1. kbd[Top(next)] \in Seq(Handlers)
    BY <1>4 DEF TypeOK
  <2>2. SubSeq(kbd[Top(next)], 1, s.nest) \in Seq(Handlers) /\ Len(SubSeq(kbd[Top(next)], 1, s.nest)) = s.nest
    BY <1>5, <2>1, Unwound
  <2> QED BY <1>4, <1>7, <2>2 DEF TypeOK
<1>9. Chained' /\ AllScheduled' /\ Distinct' /\ Waiting'
  BY <1>7 DEF Core, Chained, Link, AllScheduled, Distinct, OnStack, Waiting, Top
<1>10. ASSUME NEW t \in Terminals, schedule_top[t] > 0, t # next
       PROVE  Top(t) # Top(next) /\ kbd'[Top(t)] = kbd[Top(t)]
  <2>1. schedule_top[t] - 1 \in OnStack(t) /\ schedule_top[next] - 1 \in OnStack(next)
    BY <1>3, <1>10, OnStackLive
  <2>2. Top(t) # Top(next)
    BY <1>3, <1>10, <2>1 DEF Core, Distinct, Top
  <2> QED BY <1>8, <1>10, <2>2, TopContext
<1>11. Saved'
  <2> SUFFICES ASSUME NEW t \in Terminals, t # next, schedule_top[t] > 0
               PROVE  SavedAt(t)'
    BY <1>7 DEF Saved
  <2>1. kbd'[Top(t)] = kbd[Top(t)] /\ Top(t)' = Top(t)
    BY <1>7, <1>10 DEF Top
  <2>2. CASE t = cp
    <3>1. schedule_esp'[t][schedule_top[t] - 1] = Here
      BY <1>2, <1>7, <2>2, SavedEspValue
    <3>2. Here.ctx = cpu /\ Here.at = pc[cpu] /\ Here.nest = Len(kbd[cpu]) /\ Here.looping = Looping(cpu, Len(kbd[cpu]))
      BY DEF Here
    <3>3. kbd[cpu] \in Seq(Handlers)
      BY DEF TypeOK
    <3>4. Len(kbd[cpu]) <= Len(kbd[cpu])
      BY <3>3
    <3>5. Top(t)' = cpu /\ kbd'[cpu] = kbd[cpu] /\ pc' = pc /\ schedule_top' = schedule_top
      BY <1>2, <1>7, <2>1, <2>2
    <3> HIDE DEF Here
    <3> QED BY <1>2, <3>1, <3>2, <3>4, <3>5 DEF SavedAt, Reaches, Looping
  <2>3. CASE t # cp
    <3>1. SavedAt(t) /\ schedule_esp'[t] = schedule_esp[t]
      BY <1>7, <2>3, SavedEspValue DEF Core, Saved
    <3> QED BY <1>7, <2>1, <3>1 DEF SavedAt, Reaches, Looping
  <2> QED BY <2>2, <2>3
<1>12. CpuPlace'
  BY <1>2, <1>3, <1>4, <1>5, <1>7 DEF CpuPlace, Top
<1>13. Nesting'
  <2> SUFFICES ASSUME NEW d \in Contexts
               PROVE  /\ Len(kbd'[d]) <= MaxNest
                      /\ pc[d] \notin {"read", "window", "halted"} => kbd'[d] = << >>
    BY <1>7 DEF Nesting
  <2>1. CASE d = Top(next)
    <3>1. s.nest <= MaxNest
      BY <1>5, MaxNestAssumption DEF Position
    <3> QED BY <1>5, <1>8, <2>1, <3>1
  <2>2. CASE d # Top(next)
    BY <1>8, <2>2 DEF Core, Nesting
  <2> QED BY <2>1, <2>2
<1>14. Running'
  BY <1>1, <1>7 DEF Core, Running
<1> QED BY <1>7, <1>9, <1>11, <1>12, <1>13, <1>14 DEF Core

\* Both together.
LEMMA TimerTickStep ==
    ASSUME hazard = {}, TypeOK, Core, TimerTick
    PROVE  TypeOK' /\ (hazard' = {} => Core')
BY TickType, TickCore

-----------------------------------------------------------------------------
(* The theorems.                                                           *)

\* The state at boot.
LEMMA InitCore ==
    ASSUME Init
    PROVE  TypeOK /\ Core
<1>1. 0 \in Contexts /\ 0 \in Terminals
  BY MaxProcessesAssumption, NumTerminalsAssumption DEF Contexts, Terminals
<1>2. NotSaved \in Position
  BY <1>1, MaxNestAssumption DEF NotSaved, Position, Places
<1>3. << >> \in Seq(Handlers) /\ Len(<< >>) = 0
  OBVIOUS
<1>4. TypeOK
  BY <1>1, <1>2, <1>3, MaxProcessesAssumption
     DEF Init, TypeOK, SENTINEL_PROCESS, Places, TOTAL_PROCESSES
<1>5. \A t \in Terminals : schedule_top[t] = 0 /\ OnStack(t) = {}
  BY DEF Init, OnStack
<1>6. Chained /\ AllScheduled /\ Distinct /\ Saved
  BY <1>5 DEF Init, Chained, AllScheduled, Distinct, Saved
<1>7. CpuPlace
  BY <1>1, <1>5 DEF Init, CpuPlace, SENTINEL_PROCESS
<1>8. Nesting
  BY <1>3, MaxNestAssumption DEF Init, Nesting
<1>9. Running /\ Waiting
  BY <1>5 DEF Init, Running, Waiting
<1>10. num_active_processes = Cardinality(live)
  BY FS_EmptySet DEF Init
<1> QED BY <1>4, <1>6, <1>7, <1>8, <1>9, <1>10 DEF Init, Core

\* A step from a state without a hazard keeps the types, and the rest of the
\* invariant as well when it does not meet a hazard.
LEMMA Step ==
    ASSUME hazard = {}, TypeOK, Core, [Next]_vars
    PROVE  TypeOK' /\ (hazard' = {} => Core')
<1>1. CASE Boot
  BY <1>1, BootStep
<1>2. ASSUME NEW c \in Contexts, KernelStep(c) \/ UserStep(c)
      PROVE  TypeOK' /\ (hazard' = {} => Core')
  <2>1. CASE AfterHalted(c)
    BY <2>1, AfterHaltedStep
  <2>2. CASE ReadDone(c)
    BY <2>2, ReadDoneStep
  <2>3. CASE WindowClose(c) \/ SysWrite(c)
    BY <2>3, WindowStep
  <2>4. CASE SwitchEnds(c) \/ HandlerReturns(c)
    BY <2>4, HandlerStep
  <2>5. CASE SysExecute(c)
    BY <2>5, SysExecuteStep
  <2>6. CASE SysHalt(c)
    BY <2>6, SysHaltStep
  <2>7. CASE SysRead(c)
    BY <2>7, SysReadStep
  <2> QED BY <1>2, <2>1, <2>2, <2>3, <2>4, <2>5, <2>6, <2>7 DEF KernelStep, UserStep
<1>3. CASE TimerTick
  BY <1>3, TimerTickStep
<1>4. CASE KeyEnter \/ KeyEcho
  BY <1>4, KeyEnterStep, KeyEchoStep
<1>5. ASSUME NEW num \in Terminals, KeySwitchRunning(num) \/ KeySwitchNew(num)
      PROVE  TypeOK' /\ (hazard' = {} => Core')
  BY <1>5, KeySwitchRunningStep, KeySwitchNewStep
<1>6. CASE UNCHANGED vars
  <2>1. UNCHANGED <<live, parent, stack_pos, num_active_processes, current_pid, current_terminal,
                    current_process, terminal_running, terminal_request, schedule_tick,
                    schedule_top, schedule_stack, schedule_esp, return_switch, cip, cpu, pc, kbd,
                    mode, hazard>>
    BY <1>6 DEF vars, procVars, schedVars, termVars, tickVars, readVars
  <2>2. TypeOK'
    BY <2>1 DEF TypeOK
  <2>3. Chained' /\ AllScheduled' /\ Distinct' /\ Waiting'
    BY <2>1 DEF Core, Chained, Link, AllScheduled, Distinct, OnStack, Waiting, Top
  <2>4. Saved' /\ CpuPlace' /\ Nesting' /\ Running'
    BY <2>1 DEF Core, Saved, SavedAt, Reaches, Looping, CpuPlace, Nesting, Running, Top
  <2> QED BY <2>1, <2>2, <2>3, <2>4 DEF Core
<1> QED BY <1>1, <1>2, <1>3, <1>4, <1>5, <1>6 DEF Next, Keyboard, Stopped

\* hazard is a history variable: what has happened stays recorded.
LEMMA HazardGrows ==
    ASSUME [Next]_vars
    PROVE  hazard \subseteq hazard'
<1>1. CASE UNCHANGED vars
  BY <1>1 DEF vars
<1>2. CASE Boot \/ TimerTick \/ KeyEnter \/ KeyEcho \/ Stopped
  BY <1>2 DEF Boot, TimerTick, KeyEnter, KeyEcho, Stopped, vars
<1>3. ASSUME NEW c \in Contexts, KernelStep(c) \/ UserStep(c)
      PROVE  hazard \subseteq hazard'
  BY <1>3 DEF KernelStep, UserStep, AfterHalted, ReadDone, WindowClose, SwitchEnds, HandlerReturns,
              SysExecute, SysHalt, SysRead, SysWrite
<1>4. ASSUME NEW num \in Terminals, KeySwitchRunning(num) \/ KeySwitchNew(num)
      PROVE  hazard \subseteq hazard'
  BY <1>4 DEF KeySwitchRunning, KeySwitchNew
<1> QED BY <1>1, <1>2, <1>3, <1>4 DEF Next, Keyboard

\* The inductive invariant of the kernel: until a hazard happens, the process table,
\* the schedule stacks, the saved positions, the handshake of terminal_read and the
\* running context agree, for any number of terminals and processes and whatever is
\* followed after a hazard.
THEOREM Invariance == Spec => []IInv
<1>1. Init => IInv
  BY InitCore DEF IInv
<1>2. IInv /\ [Next]_vars => IInv'
  <2> SUFFICES ASSUME IInv, [Next]_vars, hazard' = {}
               PROVE  TypeOK' /\ Core'
    BY DEF IInv
  <2>1. hazard = {}
    BY HazardGrows
  <2> QED BY <2>1, Step DEF IInv
<1> QED BY <1>1, <1>2, PTL DEF Spec

\* Every variable of the kernel keeps its range, the step that meets a hazard included.
THEOREM TypeCorrect ==
    ASSUME Followed = {}
    PROVE  Spec => []TypeOK
<1> DEFINE Inv == TypeOK /\ IInv
<1>1. Init => Inv
  BY InitCore DEF IInv
<1>2. Inv /\ [Next]_vars => Inv'
  <2> SUFFICES ASSUME TypeOK, IInv, [Next]_vars
               PROVE  TypeOK' /\ IInv'
    OBVIOUS
  <2>1. CASE hazard = {}
    BY <2>1, Step DEF IInv
  <2>2. CASE hazard # {}
    <3>1. ~Going
      BY <2>2 DEF Going
    <3>2. UNCHANGED vars
      BY <3>1 DEF Next, KernelStep, UserStep, Keyboard, Stopped, Boot, AfterHalted, ReadDone,
                  WindowClose, SwitchEnds, HandlerReturns, SysExecute, SysHalt, SysRead, SysWrite, InUser,
                  TimerTick, KeyEnter, KeyEcho, KeySwitchRunning, KeySwitchNew
    <3>3. UNCHANGED <<live, parent, stack_pos, num_active_processes, current_pid, current_terminal,
                      current_process, terminal_running, terminal_request, schedule_tick,
                      schedule_top, schedule_stack, schedule_esp, return_switch, cip, cpu, pc, kbd,
                      mode, hazard>>
      BY <3>2 DEF vars, procVars, schedVars, termVars, tickVars, readVars
    <3> QED BY <2>2, <3>3 DEF TypeOK, IInv
  <2> QED BY <2>1, <2>2
<1> QED BY <1>1, <1>2, PTL DEF Spec

\* execute and halt keep the process counter equal to the number of control blocks
\* in use, so that execute's test leaves a free block.
THEOREM AccountingCorrect == Spec => []Accounting
<1>1. IInv => Accounting
  BY DEF IInv, Core, Accounting
<1> QED BY <1>1, Invariance, PTL

\* The context on the CPU, current_pid and the top of the schedule stack of
\* current_process are one process, through every tick, switch, execute and halt.
THEOREM InSyncCorrect == Spec => []InSync
<1>1. IInv => InSync
  BY DEF IInv, Core, CpuPlace, InSync, SENTINEL_PROCESS
<1> QED BY <1>1, Invariance, PTL

\* Each live process is on one schedule stack, once, above its parent, which waits
\* for it in execute.
THEOREM StacksCorrect == Spec => []StackDiscipline
<1>1. ASSUME hazard = {}, TypeOK, Core
      PROVE  StackDiscipline
  <2>1. live = UNION {Scheduled(t) : t \in Terminals}
    <3>1. ASSUME NEW p \in live
          PROVE  \E t \in Terminals : p \in Scheduled(t)
      BY <1>1 DEF Core, AllScheduled, Scheduled, OnStack
    <3>2. ASSUME NEW t \in Terminals, NEW p \in Scheduled(t)
          PROVE  p \in live
      BY <1>1 DEF Core, Chained, Link, Scheduled, OnStack
    <3> QED BY <3>1, <3>2
  <2>2. \A t, u \in Terminals :
          \A i \in 0 .. schedule_top[t] - 1, j \in 0 .. schedule_top[u] - 1 :
            schedule_stack[t][i] = schedule_stack[u][j] => t = u /\ i = j
    BY <1>1 DEF Core, Distinct, OnStack
  <2>3. ASSUME NEW t \in Terminals, NEW i \in 0 .. schedule_top[t] - 1
        PROVE  LET p == schedule_stack[t][i]
                   below == IF i = 0 THEN SENTINEL_PROCESS ELSE schedule_stack[t][i - 1]
               IN  /\ parent[p] = below
                   /\ stack_pos[p] = below
                   /\ i < schedule_top[t] - 1 => pc[p] = "exec"
    <3>1. Link(t, i)
      BY <1>1, <2>3 DEF Core, Chained, OnStack
    <3> QED BY <3>1 DEF Link, SENTINEL_PROCESS
  <2> QED BY <2>1, <2>2, <2>3 DEF StackDiscipline
<1>2. IInv => StackDiscipline
  BY <1>1 DEF IInv, StackDiscipline
<1> QED BY <1>2, Invariance, PTL

\* Whoever is preempted can be resumed at the place where it stopped.
THEOREM SavedCorrect == Spec => []SavedContexts
<1>1. ASSUME hazard = {}, TypeOK, Core
      PROVE  SavedContexts
  <2> SUFFICES ASSUME NEW t \in Terminals \ {current_process}, schedule_top[t] > 0,
                      NEW s, s = schedule_esp[t][schedule_top[t] - 1]
               PROVE  s # NotSaved /\ s.ctx = Top(t) /\ Usable(s)
    BY DEF SavedContexts
  <2>1. SavedAt(t) /\ Top(t) # 0
    BY <1>1, OnStackLive DEF Core, Saved
  <2> QED BY <2>1 DEF SavedAt, Usable, NotSaved
<1>2. IInv => SavedContexts
  BY <1>1 DEF IInv, SavedContexts
<1> QED BY <1>2, Invariance, PTL

\* The kernel does not hang in timer_handler, resume a stale stack pointer or pop an
\* empty schedule stack before a hazard has happened.
THEOREM NoHangCorrect == Spec => []NoHang
<1>1. IInv => NoHang
  BY DEF IInv, Core, NoHang
<1> QED BY <1>1, Invariance, PTL

\* A return switch is on only while the top process of its terminal waits for it.
THEOREM HandshakeCorrect == Spec => []Handshake
<1>1. IInv => Handshake
  BY DEF IInv, Core, Waiting, Handshake
<1> QED BY <1>1, Invariance, PTL

\* A running terminal has a process, unless its root shell is being restarted.
THEOREM RunningCorrect == Spec => []RunningHasShell
<1>1. IInv => RunningHasShell
  BY DEF IInv, Core, Running, RunningHasShell, SENTINEL_PROCESS
<1> QED BY <1>1, Invariance, PTL
=============================================================================
