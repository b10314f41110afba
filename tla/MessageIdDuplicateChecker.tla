--------------------- MODULE MessageIdDuplicateChecker ---------------------
(***************************************************************************)
(* The filter every incoming MTProto message passes: an array of 2*MaxSize *)
(* message identifiers, sorted, of which the first end_pos are in use      *)
(* (td/mtproto/AuthData.{h,cpp}).  The used prefix of the array is the     *)
(* sequence saved; end_pos is its length.                                  *)
(***************************************************************************)
EXTENDS Integers, Sequences, FiniteSets

CONSTANTS
  MaxSize,      \* the template parameter max_size
  MessageIds    \* the identifiers the peer may use

ASSUME MaxSizeAssumption == MaxSize \in Nat \ {0}
ASSUME MessageIdsAssumption == MessageIds \subseteq Nat

VARIABLES
  saved,        \* saved_message_ids_[0 .. end_pos_ - 1]
  accepted,     \* history: identifiers check() has returned OK for
  replayed,     \* history: identifiers check() returned OK for twice
  wronglyOld    \* history: new identifiers refused though fewer than MaxSize
                \* accepted ones are higher

vars == <<saved, accepted, replayed, wronglyOld>>

Stored(s) == {s[i] : i \in 1..Len(s)}

----------------------------------------------------------------------------
\* A full array keeps its upper half.
Compact(s) ==
  IF Len(s) = 2 * MaxSize THEN [i \in 1..MaxSize |-> s[i + MaxSize]] ELSE s

\* The fast path: above everything stored.
IsNewest(s, id) == Len(s) > 0 => id > s[Len(s)]

\* Below everything stored, when enough is stored to say that it is too old.
TooOldNever(s, id) == FALSE
TooOldAlways(s, id) == id < s[1]

TooOld(s, id) == Len(s) >= MaxSize /\ id < s[1]

\* std::lower_bound: the first position whose value is not below id.
LowerBound(s, id) ==
  CHOOSE i \in 1..Len(s) : s[i] >= id /\ \A j \in 1..(i - 1) : s[j] < id

\* copy_backward and the assignment that follows it.
InsertAt(s, pos, id) ==
  [i \in 1..(Len(s) + 1) |-> IF i < pos THEN s[i]
                             ELSE IF i = pos THEN id ELSE s[i - 1]]

Accept(s, id) ==
  /\ saved' = s
  /\ accepted' = accepted \union {id}
  /\ replayed' = IF id \in accepted THEN replayed \union {id} ELSE replayed
  /\ UNCHANGED wronglyOld

\* The error paths leave the compacted array behind.
Refuse(s, id) ==
  /\ saved' = s
  /\ wronglyOld' =
       IF id \notin accepted /\ Cardinality({a \in accepted : a > id}) < MaxSize
       THEN wronglyOld \union {id} ELSE wronglyOld
  /\ UNCHANGED <<accepted, replayed>>

Check(id) ==
  LET s == Compact(saved) IN
  \/ IsNewest(s, id) /\ Accept(Append(s, id), id)
  \/ ~IsNewest(s, id) /\ TooOld(s, id) /\ Refuse(s, id)
  \/ /\ ~IsNewest(s, id) /\ ~TooOld(s, id)
     /\ LET pos == LowerBound(s, id) IN
        \/ s[pos] = id /\ Refuse(s, id)
        \/ s[pos] # id /\ Accept(InsertAt(s, pos, id), id)

Init == saved = <<>> /\ accepted = {} /\ replayed = {} /\ wronglyOld = {}

Next == \E id \in MessageIds : Check(id)

Spec == Init /\ [][Next]_vars

----------------------------------------------------------------------------
\* The used prefix never runs past the 2*MaxSize entries of the array.
TypeOK ==
  /\ saved \in Seq(MessageIds)
  /\ Len(saved) <= 2 * MaxSize
  /\ accepted \subseteq MessageIds
  /\ replayed \subseteq MessageIds
  /\ wronglyOld \subseteq MessageIds

\* lower_bound is used on the array, so it has to stay strictly increasing
\* through every insertion and compaction.
Sorted == \A i, j \in 1..Len(saved) : i < j => saved[i] < saved[j]

\* What has been forgotten lies below everything still stored, and at least
\* MaxSize identifiers are stored from then on, so that the "very old" test
\* refuses it.
ForgottenIsOld ==
  \A a \in accepted :
     \/ a \in Stored(saved)
     \/ Len(saved) >= MaxSize /\ a < saved[1]

\* Nothing is stored that was not accepted.
StoredWasAccepted == Stored(saved) \subseteq accepted

\* No identifier is accepted a second time, however many messages came between
\* the two receptions and however often the array was compacted.
NeverAcceptedTwice == replayed = {}

\* A new identifier is refused only when at least MaxSize accepted ones are
\* higher: the filter may not swallow a merely reordered message.
OnlyOldRefused == wronglyOld = {}

\* The inductive invariant.
IInv ==
  TypeOK /\ Sorted /\ ForgottenIsOld /\ StoredWasAccepted /\ NeverAcceptedTwice
============================================================================
