---------------------------- MODULE ScrubClosure ----------------------------
(***************************************************************************)
(* The hash closure of a scrub (athanor/check_scrub_hash_closure.py).  A    *)
(* scrub edits published files; files cite each other by hash, so an edit   *)
(* makes citations stale and mending a citation is an edit as well.  The    *)
(* check compares the tree of the base with that of HEAD.                   *)
(*                                                                         *)
(* A content is known by its hash, a number; text[h] is what content h      *)
(* says: the citations <<file, hash>> in plain, and the supersession        *)
(* records of a JSON file, which name a file and hold hashes.               *)
(***************************************************************************)
EXTENDS Integers, Sequences, FiniteSets

CONSTANTS
  TreePath,    \* names of files
  Root,        \* the files that exist at the base
  MaxContent,  \* bound on the contents ever written
  WriteOnce    \* whether the scrub changes every file at most once

ASSUME ScrubAssumption == Root \subseteq TreePath /\ MaxContent \in Nat

VARIABLES
  text,        \* contents, by their hash
  base, head   \* the two trees: a hash for every file

scrubVars == <<text, base, head>>

NoFile == 0
InTree(tree) == {p \in TreePath : tree[p] # NoFile}

-----------------------------------------------------------------------------
(* Mutant: a hash that some file of HEAD still has is not superseded. *)
SupersededIfGone ==
  {p \in InTree(base) : head[p] # base[p] /\ \A q \in TreePath : head[q] # base[p]}

(* superseded_content: the files that have no longer the content they had. *)
SupersededContent == {p \in InTree(base) : head[p] # base[p]}

(* moved_content: those whose name is gone and whose content is elsewhere. *)
Moved == {p \in SupersededContent : head[p] = NoFile /\ \E q \in InTree(head) : head[q] = base[p]}

(* Mutant: that of a renamed file too. *)
GoneMovedToo == SupersededContent

(* The files whose old hash is looked for. *)
Gone == SupersededContent \ Moved

(* Mutant: a record excuses the current hash, not the old one. *)
ExcusedCurrent(r, h) ==
  r.name \in Gone /\ r.name \in InTree(head) /\ h = head[r.name] /\ head[r.name] \in r.hashes

(* excused_spans: a record accounts for the old hash of the file it names   *)
(* if it holds the file's current hash.                                     *)
Excused(r, h) ==
  /\ r.name \in Gone /\ r.name \in InTree(head)
  /\ h = base[r.name] /\ head[r.name] \in r.hashes

(* surviving_occurrences: the files of HEAD where an old hash survives. *)
Surviving ==
  {q \in InTree(head) : \E p \in Gone :
     \/ \E c \in text[head[q]].cites : c[2] = base[p]
     \/ \E r \in text[head[q]].records : base[p] \in r.hashes /\ ~Excused(r, base[p])}

(* main: 0 clean, 1 a finding, 2 cannot tell. *)
ScrubExit == IF Surviving # {} THEN 1 ELSE IF Moved # {} THEN 2 ELSE 0

-----------------------------------------------------------------------------
(* A tree is closed if every citation of it is of the content that the file *)
(* it names has in the tree, and every record of it has that content and    *)
(* beside it only the old one of that file.                                 *)
Closed(tree) ==
  \A q \in InTree(tree) :
    /\ \A c \in text[tree[q]].cites : c[2] = tree[c[1]]
    /\ \A r \in text[tree[q]].records : /\ tree[r.name] \in r.hashes \ {NoFile}
                                        /\ r.hashes \subseteq {base[r.name], tree[r.name]}

(* A base that is closed: the files hold contents 1, 2, ..., some of them   *)
(* the same, and each cites files before it in the order of the contents.   *)
ScrubInit ==
  /\ base \in [TreePath -> 0 .. Cardinality(Root)] /\ head = base
  /\ Root = InTree(base)
  /\ \E n \in 1 .. Cardinality(Root) :
       /\ {base[p] : p \in Root} = 1 .. n
       /\ text \in [1 .. n -> [cites : {{<<p, base[p]>> : p \in S} : S \in SUBSET Root}, records : {{}}]]
  /\ \A q \in Root : \A c \in text[base[q]].cites : c[2] < base[q]

Fresh == Len(text) + 1
Untouched(q) == WriteOnce => head[q] = base[q]
Writable(q)  == q \in InTree(head) /\ Untouched(q)
WriteContent(q, t) == /\ Fresh <= MaxContent
                      /\ text' = Append(text, t)
                      /\ head' = [head EXCEPT ![q] = Fresh]
                      /\ UNCHANGED base

(* The scrub changes what a file says, its citations aside. *)
EditText(q) == Writable(q) /\ WriteContent(q, text[head[q]])

(* It cites one more file p of HEAD, brings a citation up to date, also by  *)
(* pointing it to another name ...                                          *)
CitationOf(p) == <<p, head[p]>>
AddCitation(q, p) ==
  /\ Writable(q) /\ p \in InTree(head) \ {q}
  /\ WriteContent(q, [text[head[q]] EXCEPT !.cites = @ \cup {CitationOf(p)}])
Mend(q, c, p) ==
  /\ Writable(q) /\ c \in text[head[q]].cites /\ p \in InTree(head) \ {q} /\ c # CitationOf(p)
  /\ WriteContent(q, [text[head[q]] EXCEPT !.cites = (@ \ {c}) \cup {CitationOf(p)}])

(* ... or keeps an old hash in a record that names p, with the current one  *)
(* of p or without.                                                         *)
KeepRecord(q, c, p) ==
  /\ Writable(q) /\ c \in text[head[q]].cites /\ head[c[1]] # c[2] /\ p \in InTree(head) \ {q}
  /\ \E hs \in {{c[2]}, {c[2], head[p]}} :
       WriteContent(q, [cites |-> text[head[q]].cites \ {c},
                        records |-> text[head[q]].records \cup {[name |-> p, hashes |-> hs]}])

(* A file is renamed, copied or removed; a new name was not in use before.  *)
New(q) == {head[q], base[q]} = {NoFile}
Rename(p, q) == /\ Writable(p) /\ New(q)
                /\ head' = [head EXCEPT ![q] = head[p], ![p] = NoFile]
                /\ UNCHANGED <<text, base>>
Copy(p, q)   == /\ p \in InTree(head) /\ New(q)
                /\ head' = [head EXCEPT ![q] = head[p]]
                /\ UNCHANGED <<text, base>>
RemoveFile(p) == /\ Writable(p) /\ head' = [head EXCEPT ![p] = NoFile]
                 /\ UNCHANGED <<text, base>>

Citations(q) == IF head[q] = NoFile THEN {} ELSE text[head[q]].cites

ScrubNext == \/ \E q \in TreePath : EditText(q)
             \/ \E q, p \in TreePath : AddCitation(q, p)
             \/ \E q, p \in TreePath : \E c \in Citations(q) : Mend(q, c, p) \/ KeepRecord(q, c, p)
             \/ \E p, q \in TreePath : Rename(p, q) \/ Copy(p, q)
             \/ \E p \in TreePath : RemoveFile(p)

ScrubSpec == ScrubInit /\ [][ScrubNext]_scrubVars

-----------------------------------------------------------------------------
(* If the base is closed and the check is clean, HEAD is closed, whatever   *)
(* files were edited, copied, renamed or removed and whatever files the     *)
(* citations were pointed to: nothing but the hashes of the base can be     *)
(* stale when the scrub changes every file once                             *)
(* (check_scrub_hash_closure.py:2-22, 357-380).                             *)
CleanMeansClosed == ScrubExit = 0 => Closed(head)

(* A finding is real but in one case: a closed tree gets one only if a file *)
(* was changed whose old content HEAD has under another name, given to a    *)
(* copy or that of a file that was the same in the base.  A rename alone is *)
(* refused, never a finding (check_scrub_hash_closure.py:176-204, 366-371). *)
FindingsAreReal ==
  ScrubExit = 1 /\ Closed(head) =>
    \E p \in Gone \cap InTree(head), q \in InTree(head) :
      head[q] = base[p] /\ (q \notin Root \/ base[q] = base[p])
=============================================================================
