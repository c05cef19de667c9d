--------------------------- MODULE MCCapDocument ---------------------------
(* Constants of CapDocument for TLC, in module MCLibrary.                  *)
EXTENDS CapDocument

\* One element of each kind.
Identifiers == {"identifier"}
Statuses == {"status"}
Events == {"event"}
Severities == {"severity"}

\* In the CAP namespace, without namespace, missing, and both at odds.
Written(texts) == {[cap |-> t, bare |-> Absent] : t \in texts}
Unqualified(texts) == {[cap |-> Absent, bare |-> t] : t \in texts}
Missing == {[cap |-> Absent, bare |-> Absent]}
AtOdds == {[cap |-> "listed", bare |-> "unlisted"], [cap |-> "unlisted", bare |-> "listed"]}

PlainChildren == Written({"listed"}) \cup Unqualified({"listed"}) \cup Missing
ListedChildren == Written(Text) \cup Unqualified(Text) \cup Missing \cup AtOdds

Blocks(plain, listed) ==
  {[f \in {plain, listed} |-> IF f = plain THEN a ELSE b] :
     a \in PlainChildren, b \in ListedChildren}

Infos == {[fields |-> b, areas |-> [cap |-> TRUE, bare |-> FALSE]] :
            b \in Blocks("event", "severity")}

AlertBlocks == Blocks("identifier", "status")
Good == [f \in {"identifier", "status"} |-> [cap |-> "listed", bare |-> Absent]]

\* No info block, one, two, or one in each namespace.  Blocks are judged one by
\* one, so a document with two has a sound alert around them.
NoInfo == [cap |-> <<>>, bare |-> <<>>]
OneInfo == {[cap |-> <<i>>, bare |-> <<>>] : i \in Infos}
           \cup {[cap |-> <<>>, bare |-> <<i>>] : i \in Infos}
TwoInfos == {[cap |-> <<i, j>>, bare |-> <<>>] : i \in Infos, j \in Infos}
            \cup {[cap |-> <<i>>, bare |-> <<j>>] : i \in Infos, j \in Infos}

ForeignDocuments ==
  {[root |-> r, fields |-> b, infos |-> l] :
     r \in {"alert", "other"}, b \in AlertBlocks, l \in {NoInfo} \cup OneInfo}
  \cup {[root |-> "alert", fields |-> Good, infos |-> l] : l \in TwoInfos}

AllPayloads == Payload

=============================================================================
