--------------------------- MODULE HostDiscipline ---------------------------
(***************************************************************************)
(* What all host adapters have in common: the order in which they flag,    *)
(* write, verify, mark, compare, publish and give back.  Each condition is *)
(* about the text of a program alone and can be read off it.  The 67       *)
(* programs of the daemon obey all of them; what HostOperation promises    *)
(* its clients follows from them, whatever fails and whoever interferes.   *)
(***************************************************************************)
EXTENDS HostSteps

Steps == [do : STRING, at : STRING, of : SUBSET Facets, on : STRING]

-----------------------------------------------------------------------------
(* The order of steps in a block *)

Has(steps, kind) == \E i \in 1..Len(steps) : steps[i] \in kind

\* Each step of the one kind has one of the other kind before it, ...
Before(steps, kind, first) ==
  \A i \in 1..Len(steps) : steps[i] \in kind => \E j \in 1..i - 1 : steps[j] \in first
\* ... or after it, ...
After(steps, kind, then) ==
  \A i \in 1..Len(steps) : steps[i] \in kind =>
    \E j \in i + 1..Len(steps) : steps[j] \in then
\* ... or none after it, ...
NoneAfter(steps, kind, other) ==
  \A i \in 1..Len(steps) : steps[i] \in kind =>
    \A j \in i + 1..Len(steps) : steps[j] \notin other
\* ... or one between it and any later step of a third kind.
Between(steps, kind, other, last) ==
  \A i \in 1..Len(steps) : steps[i] \in kind =>
    \A k \in i + 1..Len(steps) : steps[k] \in last =>
      \E j \in i + 1..k - 1 : steps[j] \in other

-----------------------------------------------------------------------------
(* Kinds of steps *)

Doing(verbs) == {step \in Steps : step.do \in verbs}
\* A failure makes the answer an error, ...
Fatal(verbs) == {step \in Doing(verbs) : step.on # "warn"}
\* ... or ends the try block as well.
Ending(verbs) == {step \in Doing(verbs) : step.on \in {"raise", "once"}}
Of(verbs, what) == {step \in Doing(verbs) : step.at = what}

Changing == {"write", "metadata"}
Lossy == Doing(Changing \cup {"produce"})
Finishing == {"describe", "validate", "register", "refresh"}
Cleaning == {"read", "same", "note", "free", "drop"}

\* The first snapshot of a facet, one that must succeed, and its comparison
\* with the document, one that fails the answer or ends the try block.
Snapping(facet) == {step \in Of({"snap"}, "before") : facet \in step.of}
Observing(facet) == {step \in Snapping(facet) : step.on \in {"raise", "once"}}
Comparing(facet) == {step \in Of({"same"}, "before") : facet \in step.of /\ step.on # "warn"}
Refusing(facet) == {step \in Comparing(facet) : step.on \in {"raise", "once"}}

-----------------------------------------------------------------------------
(* The conditions *)

\* Finally clauses only compare, note and give back; a handler finishes.
HasBlocks(p) ==
  /\ p.body \in Seq(Steps) /\ p.always \in Seq(Steps) /\ p.after \in Seq(Steps)
  /\ ~Has(p.body, Doing(Finishing \cup {"drop", "note"}))
  /\ ~Has(p.always, Steps \ Doing(Cleaning))
  /\ ~Has(p.after, Steps \ Doing(Finishing))

\* The receipt says "attempted" before the first native setter.
FlagsBeforeWriting(p) ==
  p.claims \cap {"receipt", "kept"} # {} => Before(p.body, Doing(Changing), Doing({"attempt"}))

\* Nothing after the adapter replaces a receipt the worker keeps.
KeepsItsReceipt(p) ==
  "kept" \in p.claims => /\ "activation" \notin p.claims
                         /\ ~Has(p.after, {step \in Steps : step.on # "keep"})

\* "Already as asked for" is decided before anything is written.
NoticesBeforeWriting(p) == NoneAfter(p.body, Lossy, Doing({"unchanged"}))

\* A success that did not find the document as asked for has written.
WritesToSucceed(p) ==
  /\ {"receipt", "verified"} \subseteq p.claims /\ "observation" \notin p.claims
  => Has(p.body, Fatal(Changing))

\* What was written is read back, by the adapter or by who validates its result.
VerifiesAfterWriting(p) ==
  "verified" \in p.claims =>
    "readback" \in p.rules \/ After(p.body, Lossy, Fatal({"verify"}))

MarksAfterWriting(p) ==
  "saved" \in p.claims =>
    IF "modified" \in p.rules THEN "receipt" \in p.claims
    ELSE After(p.body, Doing(Changing), Fatal({"mark"}))

\* A file is verified between its production and its publication.
PublishesVerified(p) ==
  /\ Between(p.body, Lossy, Ending({"verify"}), Doing({"publish"}))
  /\ NoneAfter(p.body, Doing({"publish"}), Lossy)

\* What has to happen in the state of the first snapshot: the reads an answer
\* consists of, or whatever changes the document or makes a file of it.
Touching(p) == IF "observation" \in p.claims THEN Doing({"read"}) ELSE Lossy

\* What of that state has to be the same: all that is observed, but for a
\* mutation only its context.
Guarded(p) ==
  {facet \in Facets :
     /\ Has(p.body, Snapping(facet))
     /\ \/ p.claims \cap {"observation", "source"} # {}
        \/ "context" \in p.claims /\ facet \in Context}

\* It is observed before, and not observed anew afterwards.
SnapsBeforeTouching(p) ==
  \A facet \in Guarded(p) : /\ Before(p.body, Touching(p), Observing(facet))
                            /\ NoneAfter(p.body, Touching(p), Snapping(facet))

\* The source of a strict export, its save flag above all, is compared between
\* its production and its publication, ...
ComparesSource(p) ==
  "source" \in p.claims =>
    /\ p.claims \cap {"context", "observation"} = {}
    /\ "modified" \in Guarded(p)
    /\ \A facet \in Guarded(p) : Between(p.body, Lossy, Refusing(facet), Doing({"publish"}))

\* ... the context of a mutation and the state of an observation after it or in
\* a finally clause, ...
ComparesAgain(p) ==
  p.claims \cap {"context", "observation"} # {} =>
    \A facet \in Guarded(p) :
      Has(p.always, Comparing(facet)) \/ After(p.body, Touching(p), Comparing(facet))

\* ... and the stamp with it, when the state was only read.
OnlyObserves(p) ==
  "observation" \in p.claims =>
    /\ "stamp" \in Guarded(p)
    /\ ~Has(p.body, Lossy \cup Doing({"unchanged"}))
    /\ ~Has(p.always, Doing({"read"}))

\* What belongs to the worker around the adapter is not the adapter's to lend.
Outer == {"command in progress", "earlier preferences", "foreground"}

\* What a finally clause frees with a readback is dropped by none.
FreesWhatItBorrows(p) ==
  /\ \A what \in Outer, steps \in {p.body, p.always} :
       ~Has(steps, Of({"take", "free", "drop", "settle"}, what))
  /\ \A i \in 1..Len(p.always) :
       p.always[i].do = "free" => ~Has(p.always, Of({"drop"}, p.always[i].at))

RestoresPreferences(p) ==
  Has(p.body, Of({"take"}, "preferences")) =>
    /\ Has(p.always, Of({"free"}, "preferences"))
    /\ ~Has(p.always, Of({"drop"}, "preferences"))

Disciplined(p) ==
  /\ HasBlocks(p) /\ FlagsBeforeWriting(p) /\ KeepsItsReceipt(p) /\ OnlyObserves(p)
  /\ NoticesBeforeWriting(p) /\ WritesToSucceed(p) /\ VerifiesAfterWriting(p)
  /\ MarksAfterWriting(p) /\ PublishesVerified(p) /\ SnapsBeforeTouching(p)
  /\ ComparesSource(p) /\ ComparesAgain(p)
  /\ FreesWhatItBorrows(p) /\ RestoresPreferences(p)
=============================================================================
