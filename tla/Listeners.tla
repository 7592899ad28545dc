------------------------------ MODULE Listeners ------------------------------
(***************************************************************************)
(* Listener (crates/assuan-transport/src/listener.rs) over its TCP and Unix*)
(* backends: several processes of one user, each with one listener, that   *)
(* all bind the same path.  bind and cleanup of a Unix listener            *)
(* (src/unix.rs) are sequences of system calls on that path; every call is *)
(* a step, so processes interleave between them, may crash there, and      *)
(* outside programs may change the path meanwhile.                         *)
(***************************************************************************)
EXTENDS Naturals

CONSTANTS
    Listener,       \* listeners; one process has at most one at a time
    Tcp,            \* those with the TCP backend
    Inodes,         \* bound: inode numbers of the file system
    MaxMeddling     \* bound: changes made by outside programs

ASSUME ListenerAssumption ==
    /\ Tcp \subseteq Listener
    /\ MaxMeddling \in Nat
    /\ "outside" \notin Listener /\ "none" \notin Inodes

VARIABLES
    entry,          \* what the path names: its creator, inode, whether a socket
                    \* of this user; or Missing
    dir, private,   \* the parent directory's identity; that it is a directory of
                    \* this user, without access for others
    away,           \* inodes of files that still exist under other names
    at,             \* where each listener's code stands
    parent, socket, \* UnixListener.parent, UnixListener.socket
    inner, cleaned, \* UnixListener.inner is there, UnixListener.cleaned
    binding,        \* the cleanup that runs was called by bind
    result,         \* what the latest call returned
    raced,          \* history: an outside program changed the path between a
                    \* step that relies on it and the next, or had the inode
                    \* number of a removed but open socket used again
    meddled,        \* history: number of changes by outside programs
    faulted         \* history: a call other than set_permissions failed

fs == <<entry, dir, private, away>>
own == <<at, parent, socket, inner, cleaned, binding, result>>
hist == <<raced, meddled, faulted>>
listenVars == <<fs, own, hist>>

Missing == [creator |-> "outside", inode |-> "none", socket |-> FALSE]
Entry == [creator : Listener \cup {"outside"}, inode : Inodes, socket : BOOLEAN]
Bind == {"new", "canonical", "probe", "listen", "inspect", "chmod", "recheck"}
Cleanup == {"verify", "identify", "remove"}
Result == {"none", "Ok", "AccessPolicy", "Io", "InvalidEndpoint", "Accepted"}

ListenTypeOK ==
    /\ entry \in Entry \cup {Missing}
    /\ dir \in Nat /\ private \in BOOLEAN
    /\ away \subseteq Inodes
    /\ at \in [Listener -> Bind \cup Cleanup \cup {"bound", "failed", "gone"}]
    /\ parent \in [Listener -> Nat]
    /\ socket \in [Listener -> Inodes \cup {"none"}]
    /\ inner \in [Listener -> BOOLEAN] /\ cleaned \in [Listener -> BOOLEAN]
    /\ binding \in [Listener -> BOOLEAN]
    /\ result \in [Listener -> Result]
    /\ raced \in BOOLEAN /\ meddled \in Nat
    /\ faulted \in [Listener -> BOOLEAN]

ListenInit ==
    /\ entry = Missing /\ dir = 0 /\ private \in BOOLEAN /\ away = {}
    /\ at = [l \in Listener |-> "new"]
    /\ parent = [l \in Listener |-> 0] /\ socket = [l \in Listener |-> "none"]
    /\ inner = [l \in Listener |-> FALSE] /\ cleaned = [l \in Listener |-> FALSE]
    /\ binding = [l \in Listener |-> FALSE] /\ result = [l \in Listener |-> "none"]
    /\ raced = FALSE /\ meddled = 0
    /\ faulted = [l \in Listener |-> FALSE]

\* The listener's code goes on to, or returns at, p.
Goes(l, p) == at' = [at EXCEPT ![l] = p]
Returns(l, p, r) == Goes(l, p) /\ result' = [result EXCEPT ![l] = r]

\* A file appears at the path.  The number of one that no longer has a name may
\* be used again.
Creates(c, i, isSocket, r) ==
    /\ entry' = [creator |-> c, inode |-> i, socket |-> isSocket]
    /\ raced' = (r \/ \E l \in Listener : inner[l] /\ socket[l] = i)

\* There is no UnixListener: not yet, or no longer.
NoListener(l) ==
    /\ parent' = [parent EXCEPT ![l] = 0] /\ socket' = [socket EXCEPT ![l] = "none"]
    /\ inner' = [inner EXCEPT ![l] = FALSE] /\ cleaned' = [cleaned EXCEPT ![l] = FALSE]
    /\ binding' = [binding EXCEPT ![l] = FALSE]

-----------------------------------------------------------------------------
(* bind *)

\* bind returns an error: what it has opened is closed, the path stays.
BindCloses(l, r) ==
    /\ Returns(l, "failed", r)
    /\ NoListener(l)
    /\ UNCHANGED <<fs, raced, meddled>>
BindFails(l, r) == BindCloses(l, r) /\ UNCHANGED faulted

\* private_directory, which may also fail to inspect it.
PrivateDirectory(l) == private /\ (at[l] # "new" => dir = parent[l])

\* Any system call of bind fails; set_permissions is dealt with below.
BindIoError(l) ==
    /\ at[l] \in Bind \ {"chmod"}
    /\ BindCloses(l, "Io")
    /\ faulted' = [faulted EXCEPT ![l] = TRUE]

BindTcp(l) ==
    /\ l \in Tcp /\ at[l] = "new"
    /\ Returns(l, "bound", "Ok")
    /\ inner' = [inner EXCEPT ![l] = TRUE]
    /\ UNCHANGED <<fs, parent, socket, cleaned, binding, hist>>

BindParent(l) ==
    /\ l \notin Tcp /\ at[l] = "new"
    /\ \/ ~PrivateDirectory(l) /\ BindFails(l, "AccessPolicy")
       \/ /\ PrivateDirectory(l)
          /\ parent' = [parent EXCEPT ![l] = dir]
          /\ Goes(l, "canonical")
          /\ UNCHANGED <<fs, socket, inner, cleaned, binding, result, hist>>

\* The canonical path must name the same directory.
BindCanonical(l) ==
    /\ at[l] = "canonical"
    /\ \/ ~PrivateDirectory(l) /\ BindFails(l, "AccessPolicy")
       \/ /\ PrivateDirectory(l) /\ Goes(l, "probe")
          /\ UNCHANGED <<fs, parent, socket, inner, cleaned, binding, result, hist>>

BindProbe(l) ==
    /\ at[l] = "probe"
    /\ \/ entry # Missing /\ BindFails(l, "Io")
       \/ /\ entry = Missing /\ Goes(l, "listen")
          /\ UNCHANGED <<fs, parent, socket, inner, cleaned, binding, result, hist>>

\* The system creates the socket, if the path still is free.
BindListen(l) ==
    /\ at[l] = "listen"
    /\ \/ entry # Missing /\ BindFails(l, "Io")
       \/ /\ entry = Missing
          /\ \E i \in Inodes \ away : Creates(l, i, TRUE, raced)
          /\ inner' = [inner EXCEPT ![l] = TRUE]
          /\ Goes(l, "inspect")
          /\ UNCHANGED <<dir, private, away, parent, socket, cleaned, binding, result,
                         meddled, faulted>>

\* symlink_metadata of the new socket gives the identity to remember.
BindInspect(l) ==
    /\ at[l] = "inspect"
    /\ \/ entry = Missing /\ BindFails(l, "Io")
       \/ entry # Missing /\ ~entry.socket /\ BindFails(l, "AccessPolicy")
       \/ /\ entry.socket
          /\ socket' = [socket EXCEPT ![l] = entry.inode]
          /\ Goes(l, "chmod")
          /\ UNCHANGED <<fs, parent, inner, cleaned, binding, result, hist>>

\* set_permissions; if it fails, the socket is cleaned up before bind returns.
BindChmodFailsOnly(l) ==    \* mutated: ? instead of the cleanup
    /\ at[l] = "chmod" /\ BindFails(l, "Io")
BindChmodFails(l) ==
    /\ at[l] = "chmod"
    /\ Returns(l, "verify", "Io")
    /\ binding' = [binding EXCEPT ![l] = TRUE]
    /\ UNCHANGED <<fs, parent, socket, inner, cleaned, hist>>

BindChmod(l) ==
    /\ at[l] = "chmod" /\ entry # Missing
    /\ Goes(l, "recheck")
    /\ UNCHANGED <<fs, parent, socket, inner, cleaned, binding, result, hist>>

\* verify_parent
BindRecheck(l) ==
    /\ at[l] = "recheck"
    /\ \/ ~PrivateDirectory(l) /\ BindFails(l, "AccessPolicy")
       \/ /\ PrivateDirectory(l) /\ Returns(l, "bound", "Ok")
          /\ UNCHANGED <<fs, parent, socket, inner, cleaned, binding, hist>>

-----------------------------------------------------------------------------
(* accept *)

\* authorize_uid: the peer is this user; TCP does not ask.
Authorized(l, peer) == l \in Tcp \/ peer = "own"

AcceptPeer(l, peer) ==
    /\ at[l] = "bound"
    /\ Returns(l, "bound", CASE ~inner[l] -> "InvalidEndpoint"
                             [] inner[l] /\ Authorized(l, peer) -> "Accepted"
                             [] OTHER -> "AccessPolicy")
    /\ UNCHANGED <<fs, parent, socket, inner, cleaned, binding, hist>>

-----------------------------------------------------------------------------
(* cleanup *)

\* A no-op on TCP and after an earlier success.
CallCleanupAgain(l) ==    \* mutated: cleaned is not asked
    /\ at[l] = "bound"
    /\ IF l \in Tcp
       THEN Returns(l, "bound", "Ok")
       ELSE Goes(l, "verify") /\ UNCHANGED result
    /\ UNCHANGED <<fs, parent, socket, inner, cleaned, binding, hist>>
CallCleanup(l) ==
    /\ at[l] = "bound"
    /\ IF l \in Tcp \/ cleaned[l]
       THEN Returns(l, "bound", "Ok")
       ELSE Goes(l, "verify") /\ UNCHANGED result
    /\ UNCHANGED <<fs, parent, socket, inner, cleaned, binding, hist>>

\* cleanup returns to its caller; bind ignores the result, reports its own error
\* and drops the listener.
CleanupReturns(l, r) ==
    /\ IF binding[l] THEN Goes(l, "failed") /\ UNCHANGED result ELSE Returns(l, "bound", r)
    /\ UNCHANGED <<dir, private, away, parent, socket, binding, raced, meddled>>

\* An error leaves the listener as it was.
CleanupFails(l, r) ==
    /\ CleanupReturns(l, r)
    /\ inner' = [inner EXCEPT ![l] = @ /\ ~binding[l]]
    /\ UNCHANGED <<entry, cleaned>>

CleanupSucceeds(l) ==
    /\ CleanupReturns(l, "Ok")
    /\ inner' = [inner EXCEPT ![l] = FALSE]
    /\ cleaned' = [cleaned EXCEPT ![l] = TRUE]
    /\ UNCHANGED faulted

CleanupIoError(l) ==
    /\ at[l] \in Cleanup
    /\ CleanupFails(l, "Io")
    /\ faulted' = [faulted EXCEPT ![l] = TRUE]

CleanupVerify(l) ==
    /\ at[l] = "verify"
    /\ \/ ~PrivateDirectory(l) /\ CleanupFails(l, "AccessPolicy") /\ UNCHANGED faulted
       \/ /\ PrivateDirectory(l) /\ Goes(l, "identify")
          /\ UNCHANGED <<fs, parent, socket, inner, cleaned, binding, result, hist>>

\* What the path names is the socket that bind remembered.
Identified(l) == entry.socket /\ entry.inode = socket[l]

CleanupIdentify(l) ==
    /\ at[l] = "identify"
    /\ \/ /\ entry = Missing /\ CleanupSucceeds(l)
          /\ UNCHANGED entry
       \/ entry # Missing /\ ~Identified(l) /\ CleanupFails(l, "AccessPolicy") /\ UNCHANGED faulted
       \/ /\ Identified(l) /\ Goes(l, "remove")
          /\ UNCHANGED <<fs, parent, socket, inner, cleaned, binding, result, hist>>

\* remove_file takes away whatever the path names by now.
CleanupRemove(l) ==
    /\ at[l] = "remove" /\ entry # Missing
    /\ entry' = Missing
    /\ CleanupSucceeds(l)

-----------------------------------------------------------------------------
\* The listener is dropped, or its process dies: no path is removed.
Ends(l) ==
    /\ at[l] \notin {"failed", "gone"}
    /\ Returns(l, "gone", "none")
    /\ NoListener(l)
    /\ UNCHANGED <<fs, hist>>

\* A program of the same user other than these listeners.
Meddles ==
    /\ meddled < MaxMeddling /\ meddled' = meddled + 1
    /\ UNCHANGED <<own, faulted>>

\* Some listener has just created or identified its socket.
Relied == \E l \in Listener : at[l] \in {"inspect", "remove"}

OutsideUnlinks ==
    /\ Meddles /\ entry # Missing
    /\ entry' = Missing /\ raced' = (raced \/ Relied)
    /\ away' \in {away, away \cup {entry.inode}}
    /\ UNCHANGED <<dir, private>>

OutsideCreates ==
    /\ Meddles /\ entry = Missing
    /\ \E i \in Inodes \ away, s \in BOOLEAN : Creates("outside", i, s, raced \/ Relied)
    /\ UNCHANGED <<dir, private, away>>

OutsideChmods == Meddles /\ private' = ~private /\ UNCHANGED <<entry, dir, away, raced>>

\* The directory is renamed and another takes its place.
OutsideMovesDirectory ==
    /\ Meddles /\ dir' = dir + 1
    /\ entry' = Missing /\ raced' = (raced \/ Relied)
    /\ away' = away \cup ({entry.inode} \cap Inodes)
    /\ UNCHANGED private

Outside == OutsideUnlinks \/ OutsideCreates \/ OutsideChmods \/ OutsideMovesDirectory

Steps(l) ==
    \/ BindTcp(l) \/ BindParent(l) \/ BindCanonical(l) \/ BindProbe(l) \/ BindListen(l)
    \/ BindInspect(l) \/ BindChmod(l) \/ BindChmodFails(l) \/ BindRecheck(l) \/ BindIoError(l)
    \/ \E peer \in {"own", "other"} : AcceptPeer(l, peer)
    \/ CallCleanup(l) \/ CleanupVerify(l) \/ CleanupIdentify(l) \/ CleanupRemove(l)
    \/ CleanupIoError(l) \/ Ends(l)

ListenNext == Outside \/ \E l \in Listener : Steps(l)

ListenSpec == ListenInit /\ [][ListenNext]_listenVars

-----------------------------------------------------------------------------
(* Properties *)

\* cleanup (unix.rs:102) never removes the socket of another listener or a file
\* of another program, however the steps of the listeners interleave and wherever
\* they crash.  Only an outside program can bring that about: by changing the
\* path between the creation of a socket and its inspection (unix.rs:54-55) or
\* between a check and the removal it allows (107-115), or by removing the socket
\* of an open listener on a system that then gives its inode number away.
OnlyOwnSocketRemoved ==
    [][\A l \in Listener : CleanupRemove(l) => entry.creator = l \/ raced]_listenVars

\* "Success closes the listener", "On failure the listener remains available"
\* (listener.rs:107-119): between calls a listener is open exactly until a cleanup
\* has succeeded, and then the path no longer names its socket.
CleanupClosesOrKeeps ==
    \A l \in Listener : at[l] = "bound" =>
        /\ (inner[l] <=> ~cleaned[l])
        /\ cleaned[l] => entry.creator # l

\* A bind that reports an error (unix.rs:67-71) leaves a socket at the path, where
\* it blocks every later bind, only if another call failed too or an outside
\* program took part.
LeftoverHasACause ==
    \A l \in Listener :
        at[l] = "failed" /\ entry.creator = l => faulted[l] \/ meddled > 0
=============================================================================
