---------------------------------- MODULE Lists ----------------------------------
(***************************************************************************)
(* The lists of util.go.  A text file is a sequence of lines and a line the  *)
(* sequence of its items between commas; a JSON file is a sequence of        *)
(* elements.  Of an item only its kind matters: "blank", "bad" (no address,  *)
(* or a relative path), "comment" (a bad one that begins with #), or what it *)
(* names.                                                                    *)
(***************************************************************************)
EXTENDS Sequences, SequencesExt

CONSTANT Hashed  \* the addresses that begin with #, as emailRegex lets them

NoList == [format |-> "none", shape |-> "lines", lines |-> <<>>]

Formats == {"none", "text", "json", "unknown"}

\* A JSON file holds strings, objects with an email field, or something else; a
\* "missing" file cannot be opened.
Shapes == {"lines", "strings", "objects", "other", "missing"}

\* What a loader returns when it returns an error.
LoadError == <<"loadError">>

\* The items of a list but for those of some kinds.
Without(kinds, items) ==
  FlattenSeq([k \in DOMAIN items |-> IF items[k] \in kinds THEN <<>> ELSE <<items[k]>>])

CleanEmailList(list) == Without({"blank"}, list)

ValidEmailList(list) == list # <<>> /\ ~Contains(list, "bad")

\* What a text file takes for a comment.
Comments == {"comment"} \cup Hashed

Names(items) == Without({"blank"} \cup Comments, items)

\* Variant: the comment ends with the first comma.
LinesAreItems(lines) == FlattenSeq(lines)

\* A line that begins with # is a comment to its end.
LiveItems(lines) ==
  FlattenSeq([l \in DOMAIN lines |-> IF lines[l][1] \in Comments THEN <<>> ELSE lines[l]])

\* LoadRecipientList takes any address; LoadAttachmentList refuses a relative path.
LoadTextList(list, isRecipients) ==
  LET named == Names(LiveItems(list.lines))
  IN  IF list.shape = "missing" \/ (~isRecipients /\ Contains(named, "bad"))
        THEN LoadError ELSE named

\* LoadRecipientListJSON: blank strings are passed over, blank objects refused, and no
\* address is a comment.
LoadRecipientListJSON(list) ==
  LET items   == FlattenSeq(list.lines)
      refused == {"comment", "bad"} \cup (IF list.shape = "objects" THEN {"blank"} ELSE {})
  IN  IF list.shape \notin {"strings", "objects"} \/ ToSet(items) \cap refused # {}
        THEN LoadError ELSE CleanEmailList(items)

LoadAttachmentListJSON(list) ==
  LET items == FlattenSeq(list.lines)
  IN  IF list.shape # "strings" \/ ToSet(items) \cap {"comment", "bad"} # {}
        THEN LoadError ELSE Without({"blank"}, items)

\* LoadList; a text list of recipients may hold a bad address.
LoadList(list, isRecipients) ==
  CASE list.format = "none" -> <<>>
    [] list.format = "text" -> LoadTextList(list, isRecipients)
    [] list.format = "json" -> IF isRecipients THEN LoadRecipientListJSON(list)
                                               ELSE LoadAttachmentListJSON(list)
    [] OTHER -> LoadError

=============================================================================
