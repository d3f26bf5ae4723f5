----------------------------- MODULE Operations -----------------------------
(***************************************************************************)
(* What a program does, as data.  A program is the sequence of operations  *)
(* of its main function; where it starts a node, the operation holds the   *)
(* sequence of the function that the node runs.  Runtime says what the     *)
(* operations do.                                                          *)
(*                                                                         *)
(* A message is a number that says which turn of which loop it belongs to, *)
(* at the sender; a receive carries the number that the receiver's loops   *)
(* are at; Numbered adds the measurement.  An end of a queue pair or       *)
(* channel is a tuple of numbers.                                          *)
(***************************************************************************)
EXTENDS Integers, Sequences, FiniteSets, SequencesExt, TLC

Send(e, m) == [op |-> "send", end |-> e, msg |-> m]
Recv(e, m) == [op |-> "recv", end |-> e, msg |-> m]

\* the polling loop of a reduction: a message from each of the ends
RecvAll(E, m) == [op |-> "recvall", ends |-> E, msg |-> m]

\* a barrier: its number and the nodes that come to it
Barrier(b, N) == << [op |-> "enter", bar |-> b], [op |-> "leave", bar |-> b, nodes |-> N] >>

\* smlt_generate_model
Model == [op |-> "model"]

\* smlt_generate_modal_from_file
ModelFile == [op |-> "file"]

\* the program goes through a pointer
Deref(isNull) == [op |-> "deref", null |-> isNull]

\* a read of memory that nobody has written, or behind the end of an array
Overread == [op |-> "overread"]

\* an assertion, or a check that aborts the program
Require(holds) == [op |-> "assert", holds |-> holds]

-----------------------------------------------------------------------------
(* Set-up calls can fail.  The program looks and leaves main (EXIT), goes  *)
(* on as if nothing had happened (IGNORE), or the call itself writes       *)
(* through the NULL pointer that an allocation has returned (CRASH).       *)

EXIT   == "exit"
IGNORE == "ignore"
CRASH  == "crash"

\* several links that come into being together: the pair of an end and the
\* set of the ends at the other side
Links(what, L, onError) == [op |-> "create", what |-> what, links |-> L, onError |-> onError]

\* a call without a result that the model tracks
Try(what, onError) == Links(what, {}, onError)

\* smlt_queuepair_create, or smlt_channel_create of a 1:1 channel
Pair(x, y, onError) == Links("queuepair", {<<x, {y}>>}, onError)

\* smlt_init and the check of its result
smlt_init == Try("smlt_init", EXIT)

\* smlt_node_start, whose error is only printed, or aborts the program
Start(n, f)        == [op |-> "start", node |-> n, fn |-> f, onError |-> IGNORE]
StartOrAbort(n, f) == [op |-> "start", node |-> n, fn |-> f, onError |-> EXIT]

Join(n) == [op |-> "join", node |-> n]

-----------------------------------------------------------------------------
\* what Body(i) says for i = 1, .., n
Loop(n, Body(_)) == FlattenSeq([i \in 1 .. n |-> Body(i)])

\* the same for i = a, .., b
For(a, b, Body(_)) == FlattenSeq([i \in 1 .. b - a + 1 |-> Body(a + i - 1)])

\* the nodes in N are started with f(n), and joined
Run(N, f(_)) == [i \in 1 .. Len(N) |-> Start(N[i], f(N[i]))] \o [i \in 1 .. Len(N) |-> Join(N[i])]

\* The measurements of a program are numbered by the joins before them.
Measurement(main, i) == Cardinality({j \in 1 .. i - 1 : main[j].op = "join"})

\* the messages of measurement k
Tagged(o, k) == IF "msg" \in DOMAIN o THEN [o EXCEPT !.msg = <<k, @>>] ELSE o

Numbered(main) ==
  [i \in DOMAIN main |->
     LET o == main[i]
         k == Measurement(main, i) IN
     IF o.op = "start" THEN [o EXCEPT !.fn = [j \in DOMAIN @ |-> Tagged(@[j], k)]]
     ELSE Tagged(o, k)]

=============================================================================
