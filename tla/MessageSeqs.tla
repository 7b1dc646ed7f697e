---------------------------- MODULE MessageSeqs ----------------------------
(***************************************************************************)
(* The numbers the agent knows messages by.  The host numbers messages_in,  *)
(* the container's poll loop and its MCP tool process both number           *)
(* messages_out from maxima they read in two other statements, and the host *)
(* writes a few rows of its own into messages_out.                          *)
(***************************************************************************)
EXTENDS Integers, FiniteSets

CONSTANTS
  Writers,    \* processes of the container that write messages_out
  MaxRows     \* bound: rows of a table

VARIABLES
  inSeqs,   \* seq of the rows of messages_in
  outRows,  \* rows of messages_out: seq and writer
  reads,    \* what a writer has read: maximum of messages_out, of both
  told,     \* seqs the agent was given, with what they named
  refusedBy,\* history: writers whose insert met the UNIQUE constraint
  raced     \* history: another row came between a writer's read and insert

vars == <<inSeqs, outRows, reads, told, refusedBy, raced>>

None == -1
Idle == [out |-> None, both |-> None]
Seqs == 1..(4 * MaxRows + 4)
Largest(S) == CHOOSE n \in S \cup {0} : \A m \in S : m <= n
outSeqs == {r.seq : r \in outRows}

TypeOK ==
  /\ inSeqs \subseteq Seqs
  /\ outRows \subseteq [seq : Seqs, by : Writers \cup {"host"}]
  /\ \A w \in Writers : reads[w].out \in Seqs \cup {None, 0} /\ reads[w].both \in Seqs \cup {None, 0}
  /\ told \subseteq [seq : Seqs, what : {"in", "out"}]
  /\ refusedBy \subseteq Writers /\ raced \subseteq Writers

Init ==
  /\ inSeqs = {} /\ outRows = {} /\ told = {} /\ refusedBy = {} /\ raced = {}
  /\ reads = [w \in Writers |-> Idle]

\* Mutant: the next number, whatever its parity.
nextSeqAny(max) == max + 1

\* The next odd one.
nextOddSeq(max) == IF max % 2 = 0 THEN max + 1 ELSE max + 2

nextEvenSeq == LET max == Largest(inSeqs) IN IF max < 2 THEN 2 ELSE max + 2 - (max % 2)

\* Every inbound row, task and recurrence; the agent is shown the number.
insertMessage ==
  /\ Cardinality(inSeqs) < MaxRows
  /\ inSeqs' = inSeqs \cup {nextEvenSeq}
  /\ told' = told \cup {[seq |-> nextEvenSeq, what |-> "in"]}
  /\ UNCHANGED <<outRows, reads, refusedBy, raced>>

maxOfBoth(w) == Largest({reads[w].out} \cup inSeqs)

\* writeMessageOut, statement by statement.
ReadMaxOut(w) ==
  /\ reads[w] = Idle /\ Cardinality(outRows) < MaxRows
  /\ reads' = [reads EXCEPT ![w].out = Largest(outSeqs)]
  /\ UNCHANGED <<inSeqs, outRows, told, refusedBy, raced>>

ReadMaxIn(w) ==
  /\ reads[w].out # None /\ reads[w].both = None
  /\ reads' = [reads EXCEPT ![w].both = maxOfBoth(w)]
  /\ UNCHANGED <<inSeqs, outRows, told, refusedBy, raced>>

\* The UNIQUE constraint refuses a number another writer took meanwhile; the
\* exception goes to the caller.
writeMessageOut(w) ==
  LET seq == nextOddSeq(reads[w].both)
  IN /\ reads[w].both # None
     /\ reads' = [reads EXCEPT ![w] = Idle]
     /\ IF seq \in outSeqs
        THEN refusedBy' = refusedBy \cup {w} /\ UNCHANGED <<outRows, told>>
        ELSE /\ outRows' = outRows \cup {[seq |-> seq, by |-> w]}
             /\ told' = told \cup {[seq |-> seq, what |-> "out"]}
             /\ UNCHANGED refusedBy
     /\ raced' = raced \cup {v \in Writers \ {w} : reads[v].out # None}
     /\ UNCHANGED inSeqs

\* One statement on messages_out alone; the number is told to nobody.
writeOutboundDirect ==
  /\ Cardinality(outRows) < MaxRows
  /\ outRows' = outRows \cup {[seq |-> Largest(outSeqs) + 2, by |-> "host"]}
  /\ raced' = raced \cup {v \in Writers : reads[v].out # None}
  /\ UNCHANGED <<inSeqs, reads, told, refusedBy>>

Next ==
  \/ insertMessage \/ writeOutboundDirect
  \/ \E w \in Writers : ReadMaxOut(w) \/ ReadMaxIn(w) \/ writeMessageOut(w)

Spec == Init /\ [][Next]_vars

\* getMessageIdBySeq: inbound first.
getMessageIdBySeq(seq) == IF seq \in inSeqs THEN "in" ELSE IF seq \in outSeqs THEN "out" ELSE "null"

----------------------------------------------------------------------------
(* Properties.                                                              *)

\* A number the agent was given, for a message it received or one it sent,
\* names that message whenever it is used later: edit_message and
\* add_reaction never reach another one.
NumbersResolve == \A t \in told : getMessageIdBySeq(t.seq) = t.what

\* A message is refused only when two writers of the container numbered at
\* once, or the host wrote its row between a writer's read and its insert.
RefusalNeedsRace == refusedBy \subseteq raced

\* Both sides' numbers of the messages of a session keep naming what they named,
\* and only a race loses a number.
NumberingSound ==
  /\ TypeOK
  /\ NumbersResolve
  /\ RefusalNeedsRace
=============================================================================
