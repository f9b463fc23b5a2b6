---------------------------- MODULE FixtureTree ----------------------------
(***************************************************************************)
(* The file system below and beside the sandbox root that the SCP and SFTP *)
(* services of the hermetic server share, and the path checks both make    *)
(* before they touch it.                                                   *)
(*                                                                         *)
(* A path is the sequence of its names from the top.  A tree maps each     *)
(* existing path to a node; a file's node names its place on the disk,     *)
(* which an open file keeps when the path is moved or removed.  A symbolic *)
(* link points at a path from the top, which may dangle, have links on it  *)
(* or lead outside the root.                                               *)
(***************************************************************************)
EXTENDS Naturals, FiniteSets, Sequences, SequencesExt

CONSTANTS
    Root,               \* the canonical sandbox root
    MaxLinks            \* links the system follows on the way to a file

NoPath == <<>>
Dir == [kind |-> "dir", to |-> NoPath, at |-> 0]
File(at) == [kind |-> "file", to |-> NoPath, at |-> at]
Link(to) == [kind |-> "link", to |-> to, at |-> 0]

Exists(fs, p) == p \in DOMAIN fs
Is(fs, p, kind) == Exists(fs, p) /\ fs[p].kind = kind
UnderRoot(p) == IsPrefix(Root, p)

\* What is outside the root, as somebody reading it would see it.
Outside(fs, disk) ==
    [p \in {q \in DOMAIN fs : ~UnderRoot(q)} |->
        <<fs[p], IF fs[p].kind = "file" THEN disk[fs[p].at] ELSE <<>>>>]

Put(fs, p, node) == [q \in DOMAIN fs \cup {p} |-> IF q = p THEN node ELSE fs[q]]

\* A file is written over in place; a new one gets a new place.
Place(fs, disk, p) == IF Exists(fs, p) THEN fs[p].at ELSE Cardinality(DOMAIN disk) + 1
Fill(disk, at, data) == [i \in DOMAIN disk \cup {at} |-> IF i = at THEN data ELSE disk[i]]
Names(fs, d) == {Last(p) : p \in {q \in DOMAIN fs : q # <<>> /\ Front(q) = d}}

\* One step of canonicalize: the first link on the way is replaced by its target.
FollowLink(fs, p) ==
    LET links == {i \in DOMAIN p : Is(fs, SubSeq(p, 1, i), "link")}
        i == CHOOSE j \in links : \A k \in links : j <= k
    IN  IF links = {} THEN p ELSE fs[SubSeq(p, 1, i)].to \o SubSeq(p, i + 1, Len(p))

\* canonicalize: links are followed, as many as the system allows, and what the
\* path then names must exist.
Canonical(fs, p) ==
    LET followed[n \in 0..MaxLinks] == IF n = 0 THEN p ELSE FollowLink(fs, followed[n - 1])
        q == followed[MaxLinks]
    IN  IF Exists(fs, q) /\ ~Is(fs, q, "link") THEN q ELSE NoPath

\* symlink_metadata: as canonicalize, but a link in the last place is not followed.
Lstat(fs, p) ==
    IF Len(p) = 1 THEN p
    ELSE LET parent == Canonical(fs, Front(p))
         IN  IF parent = NoPath THEN NoPath ELSE Append(parent, Last(p))

\* Mutant: what is there already is opened as it is.
ResolveThroughLinks(fs, rel) ==
    LET p == Lstat(fs, Root \o rel)
        q == IF p # NoPath /\ Is(fs, p, "link") THEN fs[p].to ELSE p
    IN  IF rel # <<>> /\ p # NoPath /\ UnderRoot(Front(p)) /\ Is(fs, Front(p), "dir")
        THEN q ELSE NoPath

\* resolve_for_create: the parent is canonical and inside the root, and what
\* is there already is not a link.
ResolveForCreate(fs, rel) ==
    LET parent == Canonical(fs, Root \o Front(rel))
        p == Append(parent, Last(rel))
    IN  IF /\ rel # <<>> /\ UnderRoot(parent) /\ Is(fs, parent, "dir")
           /\ ~Is(fs, p, "link")
        THEN p ELSE NoPath
=============================================================================
