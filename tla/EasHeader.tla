----------------------------- MODULE EasHeader -----------------------------
(***************************************************************************)
(* etc/eas_alert_parser.py: SAME headers, decoded line by line.            *)
(*                                                                         *)
(* A header is whether it begins with ZCZC-, and the tokens between the    *)
(* dashes after that; dashes at its end are gone.  A token is what it was  *)
(* sent as (kind), which of the areas it is (n), and whether it has the    *)
(* +TTTT of a duration.  Of the kinds only an area has six characters and  *)
(* only an issue time at least seven digits; "noise" is a token garbled on *)
(* the air (no dash and no plus comes of that), "piece" the beginning of   *)
(* one that was cut off.  The names of originators and events are looked   *)
(* up in tables that pass unknown codes on, and are left out.              *)
(***************************************************************************)
EXTENDS Naturals, Sequences, SequencesExt, Keep

CONSTANTS MaxAreas,      \* bound of this model: areas in a header
          NoHeader, Raised

ASSUME MaxAreasAssumption == MaxAreas \in Nat \ {0}

Kinds == {"ORG", "EEE", "PSSCCC", "JJJHHMM", "CCCCCCCC", "noise", "piece"}
Token == [kind : Kinds, n : 0 .. MaxAreas, duration : BOOLEAN]
Header == [zczc : BOOLEAN, tokens : Seq(Token)]
AreaToken == {t \in Token : t.kind = "PSSCCC"}
Record == [originator : Token, event : Token, areas : Seq(AreaToken),
           issue : Token, station : Token]

ASSUME OutcomesAssumption == NoHeader \notin Header /\ Raised \notin Record

Plain(kind) == [kind |-> kind, n |-> 0, duration |-> FALSE]
Area(kind, n, last) == [kind |-> kind, n |-> n, duration |-> n = last]

\* The form the module's docstring gives, where noise may garble areas.
SameHeader(kinds) ==
  LET n == Len(kinds) IN
  [zczc |-> TRUE,
   tokens |-> <<Plain("ORG"), Plain("EEE")>>
              \o [i \in 1 .. n |-> Area(kinds[i], i, n)]
              \o <<Plain("JJJHHMM"), Plain("CCCCCCCC")>>]

AreaKinds == UNION {[1 .. n -> {"PSSCCC", "noise"}] : n \in 1 .. MaxAreas}

\* What is left of a token that was cut off: a part of it, all but its
\* duration, or no less than a part of its duration.
Stubs(t) == {[t EXCEPT !.kind = "piece", !.duration = FALSE],
             [t EXCEPT !.duration = FALSE], t}

\* What is left of a header that was cut off between two tokens or inside one,
\* that lost one token, or the +TTTT of its last area.
CutOff(h, i) == [h EXCEPT !.tokens = SubSeq(@, 1, i)]
CutInside(h, i, stub) == [h EXCEPT !.tokens = Append(SubSeq(@, 1, i), stub)]
Lost(h, i) == [h EXCEPT !.tokens = RemoveAt(@, i)]
Unmarked(h) == [h EXCEPT !.tokens[Len(h.tokens) - 2].duration = FALSE]

----------------------------------------------------------------------------
\* len(parts) < 6, where parts[0] is ZCZC
TooShort(h) == Len(h.tokens) < 5

\* parts[3:-2]
AreaTokens(h) == SubSeq(h.tokens, 3, Len(h.tokens) - 2)

\* Mutant: a header may do without a duration.
DurationOptional(h) == TRUE

\* "+" in last
HasDuration(h) == Last(AreaTokens(h)).duration

\* _parse_area raises unless there are six characters; such areas are skipped.
AreasOf(tokens) == Keep(tokens, AreaToken)

\* parse_same_header
Decoded(h) ==
  IF ~h.zczc \/ TooShort(h) \/ AreaTokens(h) = <<>> \/ ~HasDuration(h) THEN Raised
  ELSE LET last == Len(h.tokens) IN
       [originator |-> h.tokens[1], event |-> h.tokens[2],
        areas |-> AreasOf(AreaTokens(h)),
        issue |-> h.tokens[last - 1], station |-> h.tokens[last]]

----------------------------------------------------------------------------
VARIABLES header,  \* the line being decoded
          record   \* what it was decoded as

easVars == <<header, record>>

EasInit == header = NoHeader /\ record = Raised

\* One pass of parse_file's loop: a line that raises is left out.
Decode(h) == header = NoHeader /\ header' = h /\ record' = Decoded(h)

ParseFile ==
  \E kinds \in AreaKinds :
    LET h == SameHeader(kinds) IN
    \/ Decode(h)
    \/ Decode([h EXCEPT !.zczc = FALSE])
    \/ Decode(Unmarked(h))
    \/ \E i \in 0 .. Len(h.tokens) - 1 :
         \/ Decode(CutOff(h, i))
         \/ \E stub \in Stubs(h.tokens[i + 1]) : Decode(CutInside(h, i, stub))
    \/ \E i \in DOMAIN h.tokens : Decode(Lost(h, i))

NextLine == header # NoHeader /\ header' = NoHeader /\ record' = Raised

EasNext == ParseFile \/ NextLine

EasSpec == EasInit /\ [][EasNext]_easVars

----------------------------------------------------------------------------
(***************************************************************************)
(* Properties.                                                             *)
(***************************************************************************)
EasTypeOK ==
  /\ header \in Header \cup {NoHeader}
  /\ record \in Record \cup {Raised}

\* A header that arrives whole, or cut off no earlier than inside its station, is
\* read back as it was sent, each field from its place whatever the number of
\* areas, the station as far as it arrived; an area that was garbled costs only
\* itself (eas_alert_parser.py:139-167).
HeaderReadsBack ==
  header # NoHeader => \A kinds \in AreaKinds :
    LET h == SameHeader(kinds)
        k == Len(h.tokens) IN
    \A station \in Stubs(h.tokens[k]) : header = CutInside(h, k - 1, station) =>
      /\ record # Raised
      /\ record.originator.kind = "ORG" /\ record.event.kind = "EEE"
      /\ record.issue.kind = "JJJHHMM" /\ record.station = station
      /\ {record.areas[i].n : i \in DOMAIN record.areas}
           = {i \in DOMAIN kinds : kinds[i] = "PSSCCC"}
      /\ \A i, j \in DOMAIN record.areas :
           i < j => record.areas[i].n < record.areas[j].n

\* A header that is cut off anywhere before its station begins, between two
\* tokens or inside one, or that loses a token from its last area on, or the
\* +TTTT of that area, is refused rather than read with its fields shifted
\* (eas_alert_parser.py:144, 152-158).
TornHeaderRefused ==
  header # NoHeader => \A kinds \in AreaKinds :
    LET h == SameHeader(kinds)
        k == Len(h.tokens) IN
    \/ record = Raised
    \/ /\ \A i \in 0 .. k - 1 : header # CutOff(h, i)
       /\ \A i \in 0 .. k - 2 : \A stub \in Stubs(h.tokens[i + 1]) :
            header # CutInside(h, i, stub)
       /\ \A i \in k - 2 .. k : header # Lost(h, i)
       /\ header # Unmarked(h)

\* What arrives of a header is read as it was sent or refused.
HeadersReadBackOrRefused == HeaderReadsBack /\ TornHeaderRefused

=============================================================================
