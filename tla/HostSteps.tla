----------------------------- MODULE HostSteps -----------------------------
(***************************************************************************)
(* The vocabulary the host adapters (hosts/windows_*.py) are written in.   *)
(*                                                                         *)
(* Every adapter is one Python function over COM calls: it checks its      *)
(* arguments and the document, takes snapshots of the state it must not    *)
(* disturb, claims what it borrows from the host (a selection, a sketch    *)
(* edit, a preference), flags the mutation in its receipt, calls the       *)
(* mutating native method, reads the result back, and gives back what it   *)
(* borrowed in its finally clauses.  A program is that function: the steps *)
(* of its try block, and the steps of its finally clauses from the         *)
(* innermost outwards.  HostOperation gives the steps their meaning.       *)
(*                                                                         *)
(* Neighbouring checks with no change of state between them are one step,  *)
(* and so are the reads one snapshot consists of: people change one facet  *)
(* at a time, so they come before or after the snapshot as far as it goes. *)
(***************************************************************************)
EXTENDS Naturals, Sequences, SequencesExt

\* What an adapter compares of the document: its update stamp, its save flag, the
\* configuration shown, the sketch or component edited, the document in front ...
OwnFacets == {"stamp", "modified", "configuration", "edit", "foreground"}
\* ... its title, path and type, whether it needs a rebuild, and the stamp and
\* the rest of the source model a drawing is made from.
Facets == OwnFacets \cup {"identity", "needs rebuild", "source stamp", "source"}
\* A stamp only rises, a flag is up or down, and the other facets are compared
\* by name or by IsSame: they can come back to what they were.
Stamps == {"stamp", "source stamp"}
Flags == {"modified", "needs rebuild"}
\* Where a mutation happens; the mutation itself moves the other facets.
Context == Facets \ ({"stamp"} \cup Flags)

Step(do, at) == [do |-> do, at |-> at, of |-> {}, on |-> "raise"]

\* Arguments, document or native state tested, or a COM call that may raise.
Check(at) == Step("check", at)
\* A read the answer is made of.
Read(at) == Step("read", at)
\* The facets are observed and kept under a name.
Snap(name, of) == [Step("snap", name) EXCEPT !.of = of]
\* The facets are observed again and must be what the snapshot has.
Same(name, of) == [Step("same", name) EXCEPT !.of = of]
\* The flags of the snapshot must be down.
Clean(name) == Step("clean", name)
\* mutation.attempted, may_have_changed or staging_attempted becomes True.
Attempt == Step("attempt", "mutation")
\* A native call that changes the document and raises its stamp; it may also
\* fail after changing it, fail without, or report success and change nothing.
Write(at) == Step("write", at)
\* The same for a call that need raise neither the stamp nor the save flag.
WriteMetadata(at) == Step("metadata", at)
\* A native call that writes a file, and may disturb the document it saves.
Produce(at) == Step("produce", at)
\* A native call that may raise the stamp and changes nothing else.
Stir(at) == Step("stir", at)
\* SetSaveFlag unless GetSaveFlag, and the flag is read back.
MarkModified == Step("mark", "IModelDoc2.SetSaveFlag")
\* What was written is read back and must be what was asked for.
Verify(at) == Step("verify", at)
\* The document already is as asked for: a success that writes nothing.
Unchanged(at) == Step("unchanged", at)
\* may_have_changed becomes True when the stamp is not the snapshot's.
NoteChange(name) == Step("note", name)
\* Something of the host is borrowed, from where the finally covers it ...
Take(what) == Step("take", what)
\* ... and given back, with the readback the code does.
Free(what) == Step("free", what)
\* ... given back without looking whether the host took it ...
Drop(what) == Step("drop", what)
\* ... or no longer borrowed, because the native call it served has ended.
Settle(what) == Step("settle", what)
\* os.replace of the requested file by the staged one.
Publish == Step("publish", "staging")

\* A failure appended to cleanup_errors (or to a list that makes the result
\* fail), or to warnings only, instead of ending the block.
Collect(step) == [step EXCEPT !.on = "collect"]
Warn(step) == [step EXCEPT !.on = "warn"]
\* A failure to give back ends the block, and is not tried again.
Once(step) == [step EXCEPT !.on = "once"]

\* The document is described for the answer, ...
Describe == Step("describe", "document")
\* ... a native object is registered and its handle put into the answer, ...
Register(what) == Step("register", what)
\* ... the registry follows a renamed document, ...
RefreshKey == Step("refresh", "document")
\* ... the report is held against what a complete one must say.
Validate(what) == Step("validate", what)
\* Done to a success only.
OnSuccess(step) == [step EXCEPT !.on = "success"]
\* The failure makes the answer fail and keeps the adapter's receipt.
Keep(step) == [step EXCEPT !.on = "keep"]
\* Fatal to a success; a warning when the adapter failed already.
Bind(step) == [step EXCEPT !.on = "bind"]

\* What an adapter's answer claims, see the properties of HostOperation.
Claims == {"receipt", "verified", "observation", "saved", "context", "source", "activation",
           "kept"}

\* What the worker holds a success against before it sends it: its receipt says
\* "attempted" unless it says "unchanged", what it changed is modified, what it
\* reports of the model is what was asked for, its reads are of one state.
Rules == {"lifecycle", "modified", "readback", "one state"}

Adapter(claims, body, always) ==
  [claims |-> claims, body |-> body, always |-> always, after |-> <<>>, rules |-> {}]

Judged(rules, adapter) == [adapter EXCEPT !.rules = @ \cup rules]

\* The operation brings its document to the front first.
Activated(adapter) == [adapter EXCEPT !.claims = @ \cup {"activation"}]

\* The operation handler's own steps around its adapter.
Handled(before, adapter, after) ==
  [adapter EXCEPT !.body = before \o @, !.after = after]

\* The worker keeps the receipt when it cannot leave its command sequence.
KeptByWorker(adapter) == [adapter EXCEPT !.claims = @ \cup {"kept"}]

\* A loop over native objects: people may come between its calls.
ReadAll(at) == <<Read(at), Read(at)>>

Writes(step) == step.do \in {"write", "metadata"}
Uses(steps, do, at) == \E i \in 1..Len(steps) : steps[i].do = do /\ steps[i].at = at
=============================================================================
