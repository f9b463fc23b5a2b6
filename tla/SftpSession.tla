---------------------------- MODULE SftpSession ----------------------------
(***************************************************************************)
(* SandboxedSftpSession of the hermetic server: the requests of one SFTP   *)
(* client on the sandbox root, one at a time, with the table of open       *)
(* handles.  A request that is refused changes nothing; the queries (stat, *)
(* lstat, fstat, realpath, read) change nothing either, and readlink and   *)
(* symlink are always refused.                                             *)
(***************************************************************************)
EXTENDS FixtureTree

CONSTANTS
    Targets,            \* paths the client may name, relative to the root
    MaxHandles,         \* bound: handles a client opens
    MaxLength,          \* bound: length of a file
    MaxRequests         \* bound: requests that change something

VARIABLES
    fs, disk,           \* the file system
    initialized,
    handles,            \* the open handles, by token
    nextHandle,         \* next_handle
    requests            \* requests served that changed something

handleVars == <<handles, nextHandle>>
sftpVars == <<initialized, handleVars, requests>>

SftpInit == initialized = FALSE /\ handles = <<>> /\ nextHandle = 0 /\ requests = 0

\* resolve_existing: canonical, and inside the root.
ResolveExisting(rel) ==
    LET p == Canonical(fs, Root \o rel)
    IN  IF UnderRoot(p) THEN p ELSE NoPath

ResolveNew(rel) == ResolveForCreate(fs, rel)

\* set_len: the file is cut or filled with zeros.
SetLen(data, n) == [i \in 1..n |-> IF i <= Len(data) THEN data[i] ELSE 0]

-----------------------------------------------------------------------------
InitRequest ==
    /\ ~initialized /\ initialized' = TRUE
    /\ UNCHANGED <<fs, disk, handleVars, requests>>

\* russh-sftp serves requests one after the other, once initialized.
Request ==
    /\ initialized /\ UNCHANGED initialized
    /\ requests < MaxRequests /\ requests' = requests + 1

\* insert_handle
InsertHandle(h) ==
    /\ nextHandle < MaxHandles
    /\ handles' = [t \in DOMAIN handles \cup {nextHandle} |->
                        IF t = nextHandle THEN h ELSE handles[t]]
    /\ nextHandle' = nextHandle + 1

FileHandle(at, writable) == [kind |-> "file", at |-> at, writable |-> writable, entries |-> {}]
DirHandle(entries) == [kind |-> "dir", at |-> 0, writable |-> FALSE, entries |-> entries]

\* open: the flags say whether the file may be created, must be new, and is
\* emptied.  A directory can only be opened to read, and is then of no use.
Open(rel, flags) ==
    /\ Request
    /\ LET create == "create" \in flags
           write == "write" \in flags
           p == IF create THEN ResolveNew(rel) ELSE ResolveExisting(rel)
           at == Place(fs, disk, p)
       IN  /\ p # NoPath
           /\ create => write
           /\ ~Is(fs, p, "dir") \/ ~write
           /\ "exclude" \in flags => ~Exists(fs, p)
           /\ IF Exists(fs, p) THEN UNCHANGED fs ELSE fs' = Put(fs, p, File(at))
           /\ IF "truncate" \in flags \/ ~Exists(fs, p)
              THEN disk' = Fill(disk, at, <<>>) ELSE UNCHANGED disk
           /\ InsertHandle(FileHandle(at, write))

\* open to write, with a size among the attributes (on a file opened to read
\* set_len fails, and there is no handle).
OpenSized(rel, n) ==
    /\ Request
    /\ LET p == ResolveExisting(rel)
       IN  /\ p # NoPath /\ Is(fs, p, "file")
           /\ disk' = Fill(disk, fs[p].at, SetLen(disk[fs[p].at], n))
           /\ InsertHandle(FileHandle(fs[p].at, TRUE))
    /\ UNCHANGED fs

Close(t) ==
    /\ Request /\ t \in DOMAIN handles
    /\ handles' = [u \in DOMAIN handles \ {t} |-> handles[u]]
    /\ UNCHANGED <<fs, disk, nextHandle>>

Writable(t) == t \in DOMAIN handles /\ handles[t].kind = "file" /\ handles[t].writable

\* write: at an offset, which may be past the end.
Write(t, offset, byte) ==
    /\ Request /\ Writable(t) /\ offset < MaxLength
    /\ LET at == handles[t].at
           old == disk[at]
           n == IF offset < Len(old) THEN Len(old) ELSE offset + 1
       IN  disk' = Fill(disk, at, [SetLen(old, n) EXCEPT ![offset + 1] = byte])
    /\ UNCHANGED <<fs, handleVars>>

\* fsetstat with a size.
Fsetstat(t, n) ==
    /\ Request /\ Writable(t)
    /\ disk' = Fill(disk, handles[t].at, SetLen(disk[handles[t].at], n))
    /\ UNCHANGED <<fs, handleVars>>

\* setstat with a size: nothing for a directory.
Setstat(rel, n) ==
    /\ Request
    /\ LET p == ResolveExisting(rel)
       IN  /\ p # NoPath /\ Is(fs, p, "file")
           /\ disk' = Fill(disk, fs[p].at, SetLen(disk[fs[p].at], n))
    /\ UNCHANGED <<fs, handleVars>>

\* opendir takes the listing: links and what they lead to outside are left out,
\* and one that leads nowhere fails the request.
Opendir(rel) ==
    /\ Request
    /\ LET p == ResolveExisting(rel)
       IN  /\ p # NoPath /\ Is(fs, p, "dir")
           /\ \A n \in Names(fs, p) : Canonical(fs, Append(p, n)) # NoPath
           /\ InsertHandle(DirHandle({n \in Names(fs, p) : ~Is(fs, Append(p, n), "link")}))
    /\ UNCHANGED <<fs, disk>>

\* readdir hands it over once; after that there is nothing left.
Readdir(t) ==
    /\ Request /\ t \in DOMAIN handles
    /\ handles[t].kind = "dir" /\ handles[t].entries # {}
    /\ handles' = [handles EXCEPT ![t].entries = {}]
    /\ UNCHANGED <<fs, disk, nextHandle>>

Without(ps) == [q \in DOMAIN fs \ ps |-> fs[q]]

\* remove follows links: what goes is the file, and the link stays.
RemoveFile(rel) ==
    /\ Request
    /\ LET p == ResolveExisting(rel)
       IN  p # NoPath /\ ~Is(fs, p, "dir") /\ fs' = Without({p})
    /\ UNCHANGED <<disk, handleVars>>

Mkdir(rel) ==
    /\ Request
    /\ LET p == ResolveNew(rel)
       IN  p # NoPath /\ ~Exists(fs, p) /\ fs' = Put(fs, p, Dir)
    /\ UNCHANGED <<disk, handleVars>>

Rmdir(rel) ==
    /\ Request
    /\ LET p == ResolveExisting(rel)
       IN  /\ p # NoPath /\ Is(fs, p, "dir") /\ Names(fs, p) = {}
           /\ p # Root
           /\ fs' = Without({p})
    /\ UNCHANGED <<disk, handleVars>>

\* The system's rename: a directory moves with all that is below it, but not
\* into itself; a file may replace a file, a directory an empty directory.
Moved(old, new) ==
    LET below == {q \in DOMAIN fs : IsPrefix(old, q)}
        at(q) == new \o SubSeq(q, Len(old) + 1, Len(q))
        targets == {at(q) : q \in below}
        source(r) == old \o SubSeq(r, Len(new) + 1, Len(r))
    IN  [r \in (DOMAIN fs \ below) \cup targets |-> IF r \in targets THEN fs[source(r)] ELSE fs[r]]

Rename(oldrel, newrel) ==
    /\ Request
    /\ LET old == ResolveExisting(oldrel)
           new == ResolveNew(newrel)
       IN  /\ old # NoPath /\ new # NoPath /\ old # new
           /\ Is(fs, old, "dir") => ~IsPrefix(old, new)
           /\ Exists(fs, new) => fs[new].kind = fs[old].kind /\ Names(fs, new) = {}
           /\ fs' = Moved(old, new)
    /\ UNCHANGED <<disk, handleVars>>

Flags == {{"read"}, {"write"}, {"write", "create"}, {"write", "create", "exclude"},
          {"write", "create", "truncate"}}

SftpNext ==
    \/ InitRequest
    \/ \E rel \in Targets :
        \/ \E flags \in Flags : Open(rel, flags)
        \/ \E n \in 0..MaxLength : OpenSized(rel, n) \/ Setstat(rel, n)
        \/ Opendir(rel) \/ RemoveFile(rel) \/ Mkdir(rel) \/ Rmdir(rel)
        \/ \E newrel \in Targets : Rename(rel, newrel)
    \/ \E t \in 0..(MaxHandles - 1) :
        \/ Close(t) \/ Readdir(t)
        \/ \E n \in 0..MaxLength : Write(t, n, 1) \/ Fsetstat(t, n)

-----------------------------------------------------------------------------
\* No handle is open on one of these files.
NotOpen(places) ==
    \A t \in DOMAIN handles : handles[t].kind = "file" => handles[t].at \notin places
=============================================================================
