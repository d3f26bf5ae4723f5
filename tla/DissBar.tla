------------------------------ MODULE DissBar ------------------------------
(***************************************************************************)
(* The barriers that bench/diss_bar compares with those of Smelt, and the  *)
(* threads that use them.  Both are dissemination barriers over shared     *)
(* flags: barrier() writes an ever growing tag into a flag of its own and  *)
(* reads its peers', mcs_barrier_wait() writes into a flag of its partner  *)
(* and reverses the sense of the flags every second time.                  *)
(*                                                                         *)
(* The main thread sets up the flags for two threads, creates the threads  *)
(* one by one, waits for each to say that it is there, lets them all go    *)
(* and joins them; then it does the same with three threads, and so on.  A *)
(* thread goes through one barrier after the other, of the kinds that its  *)
(* function calls.  "smlt" stands for the barrier of Smelt that is         *)
(* measured, which Collectives and DissemBarrier show to be a BarrierSpec. *)
(*                                                                         *)
(* The flags of barrier() are not volatile.  A build with -O0 reads a flag *)
(* in every turn of the waiting loop; a build with -O3 reads it once, and  *)
(* loops for ever if it was too early.  Stores of one thread become        *)
(* visible in order (x86), so one access is one step.                      *)
(***************************************************************************)
EXTENDS Integers, Sequences

CONSTANTS NumThreads,   \* num_threads: the largest number of threads
          MAXOPS,       \* sets of flags that barrier() goes round
          INT_MAX,      \* bound: the tag starts over when it gets here
          MaxCalls      \* bound: barriers every thread calls

ASSUME DissBarAssumption ==
  /\ NumThreads \in Nat \ {0, 1}
  /\ {MAXOPS, INT_MAX, MaxCalls} \subseteq Nat \ {0}

Threads == 0 .. NumThreads - 1

(* What the threads call over and over.                                    *)
function_thread == <<"notify", "notify", "notify">>
function_thread_mcs == <<"notify", "notify", "mcs">>
function_thread_smlt == <<"notify", "notify", "smlt">>
function_thread_tp == <<"notify", "notify", "notify", "notify">>
mcs_barrier == <<"mcs">>

(* What the main thread does: the function it starts, the number of        *)
(* threads it begins with, and whether it waits for their ack.             *)
run_diss == [function |-> function_thread, from |-> 2, acks |-> TRUE]
run_diss_tp == [function |-> function_thread_tp, from |-> NumThreads, acks |-> TRUE]
run_mcs == [function |-> function_thread_mcs, from |-> 2, acks |-> TRUE]
run_smlt == [function |-> function_thread_smlt, from |-> 2, acks |-> TRUE]
throughput == [function |-> mcs_barrier, from |-> NumThreads, acks |-> FALSE]

VARIABLES
  build,      \* "O0": the waiting loop reads memory; "O3": it reads once
  run,        \* what the main thread runs
  nthr,       \* n_thr: the threads of the present turn of its loop
  main,       \* what the main thread does next: <<step, thread>>
  ack,        \* threaddata[t].ack
  pc,         \* where thread t is
  calls,      \* barriers thread t has called
  round,      \* r of barrier(), i of mcs_barrier_wait()
  tag,        \* threaddata[t].tag
  op,         \* actualFlag - r: the tag of the barrier that t is in
  flag,       \* flag[x][t][r]: notification[x].notifications[t], line r
  myflags,    \* allnodes[t].myflags[parity][r]
  parity,     \* allnodes[t].parity
  sense,      \* allnodes[t].sense
  wrapped     \* history: some tag has started over

mainVars == <<build, run, nthr, main>>
notifyVars == <<tag, op, flag, wrapped>>
mcsVars == <<myflags, parity, sense>>
vars == <<mainVars, ack, pc, calls, round, notifyVars, mcsVars>>

Init ==
  /\ build \in {"O0", "O3"}
  /\ run \in {run_diss, run_diss_tp, run_mcs, run_smlt, throughput}
  /\ nthr = run.from
  /\ main = <<"setup", 0>>
  /\ pc = [t \in Threads |-> "none"]
  /\ ack = [t \in Threads |-> 0]
  /\ calls = [t \in Threads |-> 0]
  /\ round = [t \in Threads |-> 0]
  /\ tag = [t \in Threads |-> 2]
  /\ op = [t \in Threads |-> 0]
  /\ flag = [x \in 0 .. MAXOPS - 1 |-> [t \in Threads |-> [r \in 0 .. NumThreads |-> 0]]]
  /\ myflags = [t \in Threads |-> [p \in {0, 1} |-> [r \in 0 .. NumThreads |-> 0]]]
  /\ parity = [t \in Threads |-> 0]
  /\ sense = [t \in Threads |-> 1]
  /\ wrapped = FALSE

\* step of barrier() in round r, 1 << r of mcs_barrier_init
StepIn[r \in Nat] == IF r = 0 THEN 1 ELSE StepIn[r - 1] * 2

\* readFile: ceil(log2(nthreads)); mcs_barrier_init computes the same number
Rounds == CHOOSE r \in 0 .. nthr :
            nthr <= StepIn[r] /\ \A q \in 0 .. r - 1 : StepIn[q] < nthr

Goto(t, label) == pc' = [pc EXCEPT ![t] = label]

-----------------------------------------------------------------------------
(* The main thread.                                                        *)

\* mutant: the flags keep what the threads of the last turn wrote
initSharedMemory_Stale == UNCHANGED flag

\* the flags are allocated anew, where the last ones were freed, and cleared
initSharedMemory ==
  flag' = [x \in 0 .. MAXOPS - 1 |-> [t \in Threads |-> [r \in 0 .. NumThreads |-> 0]]]

mcs_barrier_init ==
  /\ myflags' = [t \in Threads |-> [p \in {0, 1} |-> [r \in 0 .. NumThreads |-> 0]]]
  /\ parity' = [t \in Threads |-> 0]
  /\ sense' = [t \in Threads |-> 1]

initThreads ==
  /\ ack' = [t \in Threads |-> 0]
  /\ tag' = [t \in Threads |-> 2]

Setup ==
  /\ main = <<"setup", 0>>
  /\ main' = <<"create", 0>>
  /\ initSharedMemory
  /\ mcs_barrier_init
  /\ initThreads
  /\ calls' = [t \in Threads |-> 0]
  /\ wrapped' = FALSE
  /\ UNCHANGED <<build, run, nthr, pc, round, op>>

\* the main thread does its step for thread t and goes on to the next thread,
\* or, after the last one, to the first with the step then
MainStep(step, t, then) ==
  /\ main = <<step, t>>
  /\ main' = IF t + 1 < nthr THEN <<IF step = "ack" THEN "create" ELSE step, t + 1>>
                             ELSE <<then, 0>>
  /\ UNCHANGED <<build, run, calls, round, notifyVars, mcsVars>>

Create(t) ==
  /\ IF run.acks
       THEN /\ main = <<"create", t>>
            /\ main' = <<"ack", t>>
            /\ UNCHANGED <<build, run, calls, round, notifyVars, mcsVars>>
       ELSE MainStep("create", t, "join")
  /\ Goto(t, "start")
  /\ UNCHANGED <<nthr, ack>>

AwaitAck(t) == MainStep("ack", t, "release") /\ ack[t] = 1 /\ UNCHANGED <<nthr, ack, pc>>

LetGo(t) ==
  /\ MainStep("release", t, "join")
  /\ ack' = [ack EXCEPT ![t] = 0]
  /\ UNCHANGED <<nthr, pc>>

Join(t) ==
  /\ MainStep("join", t, IF nthr < NumThreads THEN "setup" ELSE "end")
  /\ pc[t] = "end"
  /\ nthr' = IF main'[1] = "setup" THEN nthr + 1 ELSE nthr
  /\ UNCHANGED <<ack, pc>>

-----------------------------------------------------------------------------
(* The threads.                                                            *)

Start(t) ==
  /\ pc[t] = "start"
  /\ IF run.acks THEN ack' = [ack EXCEPT ![t] = 1] /\ Goto(t, "ready")
                 ELSE UNCHANGED ack /\ Goto(t, "run")
  /\ UNCHANGED <<mainVars, calls, round, notifyVars, mcsVars>>

Ready(t) ==
  /\ pc[t] = "ready"
  /\ ack[t] = 0
  /\ Goto(t, "run")
  /\ UNCHANGED <<mainVars, ack, calls, round, notifyVars, mcsVars>>

\* the kind of barrier that thread t is in
Kind(t) == run.function[1 + ((calls[t] - 1) % Len(run.function))]

\* the kind of the next one
NextKind(t) == run.function[1 + (calls[t] % Len(run.function))]

Call(t, kind, label) ==
  /\ pc[t] = "run"
  /\ calls[t] < MaxCalls
  /\ NextKind(t) = kind
  /\ calls' = [calls EXCEPT ![t] = @ + 1]
  /\ round' = [round EXCEPT ![t] = 0]
  /\ Goto(t, label)
  /\ UNCHANGED <<mainVars, ack, mcsVars>>

Finish(t) ==
  /\ pc[t] = "run"
  /\ calls[t] = MaxCalls
  /\ Goto(t, "end")
  /\ UNCHANGED <<mainVars, ack, calls, round, notifyVars, mcsVars>>

-----------------------------------------------------------------------------
(* barrier() of barrier.h.                                                 *)

EnterNotify(t) ==
  /\ Call(t, "notify", "write")
  /\ op' = [op EXCEPT ![t] = tag[t]]
  /\ tag' = [tag EXCEPT ![t] = IF @ < INT_MAX THEN @ + Rounds ELSE 2]
  /\ wrapped' = (wrapped \/ tag[t] >= INT_MAX)
  /\ UNCHANGED flag

\* notification[index_tag]
Index(t) == op[t] % MAXOPS

WriteFlag(t) ==
  /\ pc[t] = "write"
  /\ Kind(t) = "notify"
  /\ round[t] < Rounds
  /\ flag' = [flag EXCEPT ![Index(t)][t][round[t]] = op[t] + round[t]]
  /\ Goto(t, "wait")
  /\ UNCHANGED <<mainVars, ack, calls, round, tag, op, wrapped, mcsVars>>

\* the peer to wait for; the loop adds nthreads until it is not negative
Peer(t) == (t - StepIn[round[t]]) % nthr

\* mutant: the peer has to be further
Notified_Late(t) == flag[Index(t)][Peer(t)][round[t]] > op[t] + round[t]

\* the flag of the peer says that it is in this round, or further
Notified(t) == flag[Index(t)][Peer(t)][round[t]] >= op[t] + round[t]

NextRound(t) ==
  /\ round' = [round EXCEPT ![t] = @ + 1]
  /\ Goto(t, "write")

ReadFlag(t) ==
  /\ pc[t] = "wait"
  /\ Kind(t) = "notify"
  /\ Notified(t)
  /\ NextRound(t)
  /\ UNCHANGED <<mainVars, ack, calls, notifyVars, mcsVars>>

(* The flag is not there yet and the loop will not look again.             *)
ReadOnce(t) ==
  /\ build = "O3"
  /\ pc[t] = "wait"
  /\ Kind(t) = "notify"
  /\ ~Notified(t)
  /\ Goto(t, "hung")
  /\ UNCHANGED <<mainVars, ack, calls, round, notifyVars, mcsVars>>

-----------------------------------------------------------------------------
(* mcs_barrier_wait().                                                     *)

EnterMcs(t) == Call(t, "mcs", "write") /\ UNCHANGED notifyVars

\* the thread whose flags partnerflags of t point to
Partner(t) == (t + StepIn[round[t]]) % nthr

WritePartner(t) ==
  /\ pc[t] = "write"
  /\ Kind(t) = "mcs"
  /\ round[t] < Rounds
  /\ myflags' = [myflags EXCEPT ![Partner(t)][parity[t]][round[t]] = sense[t]]
  /\ Goto(t, "wait")
  /\ UNCHANGED <<mainVars, ack, calls, round, notifyVars, parity, sense>>

ReadMine(t) ==
  /\ pc[t] = "wait"
  /\ Kind(t) = "mcs"
  /\ myflags[t][parity[t]][round[t]] = sense[t]
  /\ NextRound(t)
  /\ UNCHANGED <<mainVars, ack, calls, notifyVars, mcsVars>>

\* mutant: the sense is reversed every time
Reverse_Always(t) == sense' = [sense EXCEPT ![t] = 1 - @]

\* after both sets of flags have been used their sense is reversed
Reverse(t) == sense' = [sense EXCEPT ![t] = IF parity[t] = 1 THEN 1 - @ ELSE @]

-----------------------------------------------------------------------------
(* The return from a barrier.                                              *)

\* everybody has called the barrier that t is in (BarrierSpec!Leave)
Together(t) == \A u \in 0 .. nthr - 1 : calls[u] >= calls[t]

EnterSmlt(t) == Call(t, "smlt", "inside") /\ UNCHANGED notifyVars

LeaveSmlt(t) ==
  /\ pc[t] = "inside"
  /\ Together(t)
  /\ Goto(t, "run")
  /\ UNCHANGED <<mainVars, ack, calls, round, notifyVars, mcsVars>>

Leave(t) ==
  /\ pc[t] = "write"
  /\ round[t] = Rounds
  /\ IF Kind(t) = "mcs"
       THEN /\ Reverse(t)
            /\ parity' = [parity EXCEPT ![t] = 1 - @]
       ELSE UNCHANGED <<parity, sense>>
  /\ Goto(t, "run")
  /\ UNCHANGED <<mainVars, ack, calls, round, notifyVars, myflags>>

Main(t) == Create(t) \/ AwaitAck(t) \/ LetGo(t) \/ Join(t)

Barrier(t) ==
  \/ EnterNotify(t) \/ WriteFlag(t) \/ ReadFlag(t) \/ ReadOnce(t)
  \/ EnterMcs(t) \/ WritePartner(t) \/ ReadMine(t)
  \/ EnterSmlt(t) \/ LeaveSmlt(t)
  \/ Leave(t)

Thread(t) == Start(t) \/ Ready(t) \/ Barrier(t) \/ Finish(t)

Next == Setup \/ \E t \in Threads : Main(t) \/ Thread(t)

Spec == Init /\ [][Next]_vars

(* Every thread has a core of its own.                                     *)
FairSpec ==
  /\ Spec
  /\ WF_vars(Setup \/ \E t \in Threads : Main(t))
  /\ \A t \in Threads : WF_vars(Thread(t))

-----------------------------------------------------------------------------
(* Properties.                                                             *)

(* Both barriers hold everybody back until everybody has come (the step    *)
(* Leave of BarrierSpec), whatever kinds follow each other, however far    *)
(* ahead a fast thread runs into the flags of the next barrier, and        *)
(* whatever the threads of the last turn left in memory.  barrier() only   *)
(* does so until its tag starts over: from then on the old flags are no    *)
(* smaller than the new tags.                                              *)
LeaveTogether ==
  [][\A t \in Threads : pc[t] = "write" /\ pc'[t] = "run" =>
       Together(t) \/ (wrapped /\ Kind(t) = "notify")]_vars

(* A thread that writes its partner's flag turns it over: the partner has  *)
(* seen what the flag said two barriers ago.  If the flag already had that *)
(* value the partner would go through before the thread has come.          *)
FlagsTurn == \A t \in Threads :
  pc[t] = "write" /\ Kind(t) = "mcs" /\ round[t] < Rounds =>
    myflags[Partner(t)][parity[t]][round[t]] # sense[t]

(* Thread t waits in barrier() for a flag that its peer has written and    *)
(* overwritten with a smaller tag, because the tags have started over.     *)
Overtaken(t) ==
  /\ wrapped
  /\ pc[t] = "wait" /\ Kind(t) = "notify"
  /\ ~Notified(t)
  /\ calls[Peer(t)] > calls[t]

(* In the end the main thread has joined everybody.  There are two ways in *)
(* which barrier() keeps it from that: a build that looks at a flag only   *)
(* once, too early, and, in any build, a thread that meets old flags after *)
(* the tag has started over, runs ahead of the others, and overwrites a    *)
(* flag that somebody is still waiting for.                                *)
Termination ==
  <>[](\/ main = <<"end", 0>>
       \/ \E t \in Threads : pc[t] = "hung" \/ Overtaken(t))

=============================================================================
