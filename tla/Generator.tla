------------------------------ MODULE Generator ------------------------------
(***************************************************************************)
(* The generation of the model of a tree: the request to the external      *)
(* generator, whose answer comes in pieces and may stop at any of them,    *)
(* and the reading of a model from a file.                                 *)
(*                                                                         *)
(* An answer names the root of the tree, before the matrix or after it,    *)
(* and the matrix, a row for every processor of the machine.  The pieces   *)
(* in which it comes are the root, with what else is not the matrix, and   *)
(* the two halves of every row.                                            *)
(***************************************************************************)
EXTENDS Runtime

CONSTANTS Rows,      \* processors of the machine
          MaxTries   \* bound: attempts to parse a file that are followed

ASSUME GeneratorAssumption == Rows \in Nat \ {0} /\ MaxTries \in Nat

VARIABLES
  reply,  \* the answer: whether the root comes first, and the pieces received
  tries   \* history: attempts to parse the file

gvars == <<reply, tries>>

Idle == [open |-> FALSE, rootFirst |-> FALSE, pieces |-> 0]

GenInit == reply = Idle /\ tries = 0

Pieces == 2 * Rows + 1

\* what smlt_tree_parse_wrapper finds in the pieces so far
HasRoot == reply.pieces > 0 /\ (reply.rootFirst \/ reply.pieces = Pieces)
Halves == IF reply.rootFirst THEN reply.pieces - 1 ELSE reply.pieces

\* smlt_generate_model returns an error, after it has compared a length that
\* nobody has set with the number of processors (panic), and read the matrix
\* through a NULL pointer if they happen to agree
Fails == \E how \in {"panic", "null"} : Dies(how)

\* no SMLT_HOSTNAME, no address, no socket or no connection
Unreachable == ~reply.open /\ Fails /\ UNCHANGED gvars

\* an assertion on the options of the socket, or on a request sent in part
RequestAsserts == ~reply.open /\ Dies("assert") /\ UNCHANGED gvars

Request ==
  /\ ~reply.open
  /\ \E first \in BOOLEAN : reply' = [open |-> TRUE, rootFirst |-> first, pieces |-> 0]
  /\ UNCHANGED <<vars, tries>>

Receive ==
  /\ reply.open
  /\ reply.pieces < Pieces
  /\ reply' = [reply EXCEPT !.pieces = @ + 1]
  /\ UNCHANGED <<vars, tries>>

\* recv fills the buffer, and the zero is written behind it: this may do no harm
\* (Receive), or any
ReceiveFull == reply.open /\ reply.pieces < Pieces /\ Dies("undefined") /\ UNCHANGED gvars

\* recv returns -1, after 30 seconds or for another reason
ReceiveError == reply.open /\ Fails /\ UNCHANGED gvars

\* len_model == sysconf(_SC_NPROCESSORS_ONLN): a row that has begun counts
Complete == (Halves + 1) \div 2 = Rows

\* The host shuts the connection down, and what has come is parsed, with an
\* assertion that there is memory for it.  A matrix of zeros is an error, which
\* every program looks at; an entry that has not come is memory that nobody has
\* written.
Shutdown(t) ==
  /\ reply.open
  /\ reply' = Idle
  /\ UNCHANGED tries
  /\ \/ ~HasRoot /\ Fails
     \/ HasRoot /\ Dies("assert")
     \/ HasRoot /\ ~Complete /\ Dies("panic")
     \/ HasRoot /\ Complete /\ Halves < 2 * Rows /\ Dies("undefined")
     \/ /\ HasRoot /\ Halves = 2 * Rows
        /\ \/ Dies("exit")
           \/ Done(t) /\ UNCHANGED <<bench, node, peers, inbox, called, failed, status>>

-----------------------------------------------------------------------------
(* smlt_generate_modal_from_file: the file is not there, or empty, or holds *)
(* a model, or something else.                                             *)

MAX_ATTEMPTS == 10

\* the condition of the loop of smlt_tree_parse
TryAgain(attempts) == attempts < MAX_ATTEMPTS

\* fopen fails and fseek gets its NULL, nothing can be read, or there is no memory
\* (an assertion)
NoFile == tries = 0 /\ (\E how \in {"null", "exit", "assert"} : Dies(how)) /\ UNCHANGED gvars

ParseFile(t) ==
  /\ tries = 0
  /\ Done(t)
  /\ tries' = 1
  /\ UNCHANGED <<bench, node, peers, inbox, called, failed, status, reply>>

\* the parser throws: once more after two seconds, and attempts is still 0
ParseFails ==
  /\ tries < MaxTries
  /\ IF TryAgain(0) THEN tries' = tries + 1 /\ UNCHANGED <<vars, reply>>
     ELSE Dies("exit") /\ UNCHANGED gvars

GenStep(t, o) ==
  \/ /\ o = Model
     /\ \/ Unreachable \/ RequestAsserts \/ Request
        \/ Receive \/ ReceiveFull \/ ReceiveError \/ Shutdown(t)
  \/ /\ o = ModelFile
     /\ NoFile \/ ParseFile(t) \/ ParseFails

=============================================================================
