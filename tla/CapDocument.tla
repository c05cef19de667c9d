---------------------------- MODULE CapDocument ----------------------------
(***************************************************************************)
(* CAP documents: what CAPComposer writes, validate_cap accepts and        *)
(* CAPParser reads, and the compose API that puts the first two together.  *)
(*                                                                         *)
(* An element counts by its tag, by whether it is in the CAP namespace,    *)
(* and by what its text is to the code (Text).  At most one child of a tag *)
(* and namespace is modelled; of an area only whether there is one.  The   *)
(* validator looks an element up in the CAP namespace first and then       *)
(* without namespace; the parser looks in the CAP namespace alone.  The    *)
(* date is left out: the composer always writes one, and the parser        *)
(* replaces one it cannot read by the current time.                        *)
(***************************************************************************)
EXTENDS Sequences, Naturals

CONSTANTS AlertPlain,   \* required elements of an alert with any text
          AlertListed,  \* required elements of an alert with an enumeration
          InfoPlain,    \* the same two for an info block
          InfoListed,
          Documents,    \* documents from elsewhere
          Payloads,     \* requests to the compose API
          NoPayload, NoDocument

ASSUME IdentifierAssumption == "identifier" \in AlertPlain \ AlertListed

AlertFields == AlertPlain \cup AlertListed
InfoFields == InfoPlain \cup InfoListed

\* No text, white space only, an allowed value, one with white space around it,
\* and a value that is not in the enumeration (of a plain element, any text is
\* as good as an allowed value).  A request may also hold text
\* that XML cannot (control characters).
Text == {"empty", "spaces", "listed", "padded", "unlisted"}
Unwritable == "unwritable"
Absent == "absent"

Child == [cap : Text \cup {Absent}, bare : Text \cup {Absent}]
Info == [fields : [InfoFields -> Child], areas : [cap : BOOLEAN, bare : BOOLEAN]]
Document == [root : {"alert", "other"},
             fields : [AlertFields -> Child],
             infos : [cap : Seq(Info), bare : Seq(Info)]]

Payload == [fields : [AlertFields -> Text \cup {Unwritable}],
            info : [InfoFields -> Text \cup {Unwritable}], areas : BOOLEAN]

ASSUME InputsAssumption ==
  /\ Documents \subseteq Document /\ NoDocument \notin Document
  /\ Payloads \subseteq Payload /\ NoPayload \notin Payload

\* str.strip
Strip(text) ==
  IF text = "padded" THEN "listed" ELSE IF text = "spaces" THEN "empty" ELSE text

----------------------------------------------------------------------------
(***************************************************************************)
(* validate_cap.                                                           *)
(***************************************************************************)
Find(child) == IF child.cap # Absent THEN child.cap ELSE child.bare

\* Mutant: only the first info block is looked at.
FirstInfoOf(doc) ==
  LET infos == IF doc.infos.cap # <<>> THEN doc.infos.cap ELSE doc.infos.bare IN
  IF infos = <<>> THEN <<>> ELSE <<Head(infos)>>

\* _findall
InfosOf(doc) == IF doc.infos.cap # <<>> THEN doc.infos.cap ELSE doc.infos.bare

\* The elements of a block that are missing, or say what is not allowed.
Faults(fields, required, listed) ==
  {f \in required : Find(fields[f]) = Absent}
  \cup {f \in listed : Strip(Find(fields[f])) = "unlisted"}

\* Block 0 is the alert, block i the i-th info.
Errors(doc) ==
  (IF doc.root = "alert" THEN {} ELSE {<<0, "root">>})
  \cup (IF InfosOf(doc) = <<>> THEN {<<0, "info">>} ELSE {})
  \cup {<<0, f>> : f \in Faults(doc.fields, AlertFields, AlertListed)}
  \cup UNION {{<<i, f>> : f \in Faults(InfosOf(doc)[i].fields, InfoFields, InfoListed)} :
                i \in DOMAIN InfosOf(doc)}

Valid(doc) == Errors(doc) = {}

Warnings(doc) ==
  {i \in DOMAIN InfosOf(doc) :
     ~InfosOf(doc)[i].areas.cap /\ ~InfosOf(doc)[i].areas.bare}

----------------------------------------------------------------------------
(***************************************************************************)
(* CAPParser: a missing or empty status, msgType or scope is read as its   *)
(* default, any other element as the empty string.                         *)
(***************************************************************************)
Default(f) == IF f \in AlertListed THEN "default" ELSE "empty"

\* Mutant: an element without text is read as that.
ReadTextBare(child, default) ==
  IF child.cap = Absent THEN default ELSE Strip(child.cap)

ReadText(child, default) ==
  IF child.cap = Absent \/ Strip(child.cap) = "empty" THEN default ELSE Strip(child.cap)

ReadInfo(info) == [fields |-> [f \in InfoFields |-> ReadText(info.fields[f], "empty")],
                   areas |-> info.areas.cap]

Read(doc) == [fields |-> [f \in AlertFields |-> ReadText(doc.fields[f], Default(f))],
              infos |-> [i \in DOMAIN doc.infos.cap |-> ReadInfo(doc.infos.cap[i])]]

----------------------------------------------------------------------------
(***************************************************************************)
(* CAPComposer.  Its elements are serialised below a default namespace, so *)
(* whoever reads the document finds all of them in the CAP namespace.      *)
(***************************************************************************)
Sub(text) == [cap |-> text, bare |-> Absent]

\* lxml refuses the text: compose raises.
Writable(p) == /\ \A f \in AlertFields : p.fields[f] # Unwritable
               /\ \A f \in InfoFields : p.info[f] # Unwritable

\* A fresh identifier stands in for one that is missing or "", not for blanks.
Identifier(text) == IF text = "empty" THEN "listed" ELSE text

Compose(p) ==
  [root |-> "alert",
   fields |-> [f \in AlertFields |->
                 Sub(IF f = "identifier" THEN Identifier(p.fields[f]) ELSE p.fields[f])],
   infos |-> [cap |-> <<[fields |-> [f \in InfoFields |-> Sub(p.info[f])],
                         areas |-> [cap |-> p.areas, bare |-> FALSE]]>>,
              bare |-> <<>>]]

----------------------------------------------------------------------------
VARIABLES payload,  \* the request being answered, or the last one
          doc,      \* the document it is about
          answer    \* what was answered; "none" between requests

vars == <<payload, doc, answer>>

Init == payload = NoPayload /\ doc = NoDocument /\ answer = "none"

\* compose raises, and the handler with it: 500.
Fail(p) ==
  /\ answer = "none" /\ ~Writable(p)
  /\ payload' = p /\ answer' = "failed"
  /\ UNCHANGED doc

\* POST /api/v1/compose/preview answers whatever the validator says.
Preview(p) ==
  /\ answer = "none" /\ Writable(p)
  /\ payload' = p /\ doc' = Compose(p) /\ answer' = "preview"

\* POST /api/v1/compose, the compose router's.
Submit(p) ==
  /\ answer = "none" /\ Writable(p)
  /\ payload' = p /\ doc' = Compose(p)
  /\ answer' = IF Valid(Compose(p)) THEN "ready" ELSE "refused"

\* A document from a feed or a poll is validated and read.
Import(d) ==
  /\ answer = "none"
  /\ payload' = NoPayload /\ doc' = d
  /\ answer' = IF Valid(d) THEN "accepted" ELSE "rejected"

NextRequest == answer # "none" /\ payload' = NoPayload /\ doc' = NoDocument /\ answer' = "none"

Next ==
  \/ \E p \in Payloads : Fail(p) \/ Preview(p) \/ Submit(p)
  \/ \E d \in Documents : Import(d)
  \/ NextRequest

Spec == Init /\ [][Next]_vars

----------------------------------------------------------------------------
(***************************************************************************)
(* Properties.                                                             *)
(***************************************************************************)
TypeOK ==
  /\ payload \in Payloads \cup {NoPayload}
  /\ doc \in Document \cup {NoDocument}
  /\ answer \in {"none", "failed", "preview", "ready", "refused", "accepted", "rejected"}

Uniform(children) == \A f \in DOMAIN children : children[f].bare = Absent
InCapNamespace(d) ==
  /\ Uniform(d.fields)
  /\ d.infos.bare = <<>>
  /\ \A i \in DOMAIN d.infos.cap : Uniform(d.infos.cap[i].fields)

\* Validator and parser look elements up in different ways (validator.py:
\* 100-113, parser.py:107-184).  For a document all in the CAP namespace they
\* agree: what an accepted one is read as says nothing, in no block, that the
\* validator would have refused.
AcceptedReadsAllowed ==
  answer \in {"ready", "accepted"} /\ InCapNamespace(doc) =>
    LET alert == Read(doc) IN
    /\ \A f \in AlertListed : alert.fields[f] \in {"listed", "default"}
    /\ alert.infos # <<>>
    /\ \A i \in DOMAIN alert.infos, f \in InfoListed :
         alert.infos[i].fields[f] \in {"listed", "empty"}

\* What the composer writes the parser reads back, up to white space and
\* defaults; the validator warns if it reads no area there, and objects to exactly the listed elements that
\* the author filled with something else (composer.py:50-98, validator.py:
\* 56-91, parser.py:107-153).
ComposedReadsBack ==
  answer \in {"preview", "ready", "refused"} =>
    LET alert == Read(doc)
        said(text, default) == IF Strip(text) = "empty" THEN default ELSE Strip(text) IN
    /\ DOMAIN alert.infos = {1}
    /\ \A f \in AlertFields \ {"identifier"} :
         alert.fields[f] = said(payload.fields[f], Default(f))
    /\ payload.fields["identifier"] = "empty" => alert.fields["identifier"] = "listed"
    /\ \A f \in InfoFields : alert.infos[1].fields[f] = said(payload.info[f], "empty")
    /\ Errors(doc) = {<<0, f>> : f \in {g \in AlertListed : payload.fields[g] = "unlisted"}}
                     \cup {<<1, f>> : f \in {g \in InfoListed : payload.info[g] = "unlisted"}}
    /\ Warnings(doc) = {} <=> alert.infos[1].areas

=============================================================================
