----------------------------- MODULE CnCProgram -----------------------------
(***************************************************************************)
(* The vocabulary in which the sample programs are written down.  A step   *)
(* instance is <<step collection, tag>>, an item <<item collection, tag>>. *)
(* What execute() of a step does, and what main() does, is a sequence of   *)
(* operations of the public interface, in the order of the code; values    *)
(* read so far are looked up in the function v of the items put so far.    *)
(***************************************************************************)
EXTENDS Integers, Sequences, FiniteSets, SequencesExt

\* item_collection::get, put and unsafe_get, context::flush_gets,
\* tag_collection::put, context::wait.
Get(i) == [op |-> "get", item |-> i]
Put(i, val) == [op |-> "put", item |-> i, val |-> val]
UnsafeGet(i) == [op |-> "unsafe_get", item |-> i]
FlushGets == [op |-> "flush_gets"]
Tag(c, t) == [op |-> "tag", coll |-> c, tag |-> t]
Wait == [op |-> "wait"]

\* The value of item i, or d while nobody has put it: the operations up to
\* the first get that misses must not depend on d.
At(v, i, d) == IF i \in DOMAIN v THEN v[i] ELSE d

\* for(x = a; x < b; x++) ops(x), and the same over the members of a sequence.
For(a, b, ops(_)) == FlattenSeq([x \in 1..(IF b > a THEN b - a ELSE 0) |-> ops(a + x - 1)])
When(c, ops) == IF c THEN ops ELSE <<>>

\* Answers of a tuner that name no particular process or number of gets.
NO_GETCOUNT == -1
UNKNOWN == {-8}
=============================================================================
