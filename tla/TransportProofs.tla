--------------------------- MODULE TransportProofs ---------------------------
(***************************************************************************)
(* Proofs about the transport: what becomes of the listeners' sockets      *)
(* (Listeners), for any set of listeners, any set of inode numbers and any *)
(* number of changes by outside programs; Discovery, for every output      *)
(* limit, read size and amount of output; and Connect, for every path,     *)
(* socket file, nonce, timeout and size of a read or a write.              *)
(***************************************************************************)
EXTENDS Listeners, Discovery, Connect, SequenceTheorems, WellFoundedInduction, TLAPS

-----------------------------------------------------------------------------
(* The listeners *)

Early == {"new", "canonical", "probe", "listen"}
Held == {"chmod", "recheck"} \cup Cleanup
Owns(l) == at[l] \in Held \/ (at[l] = "bound" /\ ~cleaned[l])

\* While nobody raced: the socket a listener just created or identified still is
\* at the path, and the identity it remembers is that of no other file.
Trusted ==
    ~raced => \A l \in Listener :
        /\ at[l] \in {"inspect", "remove"} => entry.creator = l
        /\ inner[l] /\ socket[l] # "none" /\ entry.inode = socket[l] => entry.creator = l

\* While no outside program took part: a listener's socket stays at the path until
\* the listener removes it.
Undisturbed ==
    meddled = 0 => \A l \in Listener \ Tcp :
        /\ at[l] \notin {"new", "failed", "gone"} => private /\ dir = parent[l]
        /\ at[l] = "inspect" \/ Owns(l) => entry.creator = l /\ entry.socket
        /\ Owns(l) => entry.inode = socket[l]

\* What the position of a listener says about its fields.
Positions ==
    \A l \in Listener :
        /\ at[l] \in Early => entry.creator # l /\ ~cleaned[l]
        /\ at[l] \in {"inspect"} \cup Held => inner[l] /\ ~cleaned[l] /\ l \notin Tcp
        /\ at[l] = "bound" => (inner[l] <=> ~cleaned[l])
        /\ Owns(l) /\ l \notin Tcp => socket[l] \in Inodes
        /\ at[l] \in Early \cup {"inspect"} \/ l \in Tcp => socket[l] = "none"
        /\ cleaned[l] => entry.creator # l
        /\ l \in Tcp => entry.creator # l /\ ~cleaned[l]
                        /\ at[l] \in {"new", "bound", "failed", "gone"}
        /\ entry.creator = l => entry # Missing

ListenInv == ListenTypeOK /\ Positions /\ Trusted /\ Undisturbed /\ LeftoverHasACause

\* A bind that fails leaves the types alone.
LEMMA BindFailsType ==
    ASSUME ListenTypeOK, NEW l \in Listener, NEW r \in {"Io", "AccessPolicy"}, BindCloses(l, r),
           faulted' \in [Listener -> BOOLEAN]
    PROVE  ListenTypeOK'
    BY DEF ListenTypeOK, BindCloses, NoListener, Returns, Goes, Result, fs

\* So does a cleanup that returns.
LEMMA CleanupReturnsType ==
    ASSUME ListenTypeOK, NEW l \in Listener, NEW r \in {"Ok", "Io", "AccessPolicy"},
           CleanupReturns(l, r), UNCHANGED <<entry, faulted>>,
           inner' \in [Listener -> BOOLEAN], cleaned' \in [Listener -> BOOLEAN]
    PROVE  ListenTypeOK'
<1>1. at' \in [Listener -> Bind \cup Cleanup \cup {"bound", "failed", "gone"}]
  BY DEF ListenTypeOK, CleanupReturns, Returns, Goes
<1>2. result' \in [Listener -> Result]
  BY DEF ListenTypeOK, CleanupReturns, Returns, Result
<1> QED BY <1>1, <1>2, Zenon DEF ListenTypeOK, CleanupReturns

\* Every step keeps the variables in their types.
LEMMA ListenTypeStep ==
    ASSUME ListenTypeOK, [ListenNext]_listenVars
    PROVE  ListenTypeOK'
<1> USE ListenerAssumption DEF ListenTypeOK, Entry, Missing, Bind, Cleanup, Result
<1>1. ASSUME NEW l \in Listener, BindTcp(l) PROVE ListenTypeOK'
    BY <1>1, SMTT(30) DEF BindTcp, Goes, Returns, fs, own, hist
<1>2. ASSUME NEW l \in Listener, BindParent(l) PROVE ListenTypeOK'
  <2>1. CASE BindFails(l, "Io") \/ BindFails(l, "AccessPolicy")
    BY <2>1, BindFailsType DEF BindFails
  <2>2. CASE ~BindFails(l, "Io") /\ ~BindFails(l, "AccessPolicy")
    BY <1>2, <2>2 DEF BindParent, Goes, Returns, fs, own, hist, PrivateDirectory
  <2> QED BY <2>1, <2>2
<1>3. ASSUME NEW l \in Listener, BindCanonical(l) PROVE ListenTypeOK'
  <2>1. CASE BindFails(l, "Io") \/ BindFails(l, "AccessPolicy")
    BY <2>1, BindFailsType DEF BindFails
  <2>2. CASE ~BindFails(l, "Io") /\ ~BindFails(l, "AccessPolicy")
    BY <1>3, <2>2 DEF BindCanonical, Goes, Returns, fs, own, hist, PrivateDirectory
  <2> QED BY <2>1, <2>2
<1>4. ASSUME NEW l \in Listener, BindProbe(l) PROVE ListenTypeOK'
  <2>1. CASE BindFails(l, "Io") \/ BindFails(l, "AccessPolicy")
    BY <2>1, BindFailsType DEF BindFails
  <2>2. CASE ~BindFails(l, "Io") /\ ~BindFails(l, "AccessPolicy")
    BY <1>4, <2>2 DEF BindProbe, Goes, Returns, fs, own, hist
  <2> QED BY <2>1, <2>2
<1>5. ASSUME NEW l \in Listener, BindListen(l) PROVE ListenTypeOK'
  <2>1. CASE entry # Missing /\ BindFails(l, "Io")
    BY <2>1, BindFailsType DEF BindFails
  <2>2. CASE entry = Missing
    <3>1. PICK i \in Inodes : Creates(l, i, TRUE, raced)
      BY <1>5, <2>2 DEF BindListen, BindFails
    <3>2. /\ inner' = [inner EXCEPT ![l] = TRUE] /\ Goes(l, "inspect")
          /\ UNCHANGED <<dir, private, away, parent, socket, cleaned, binding, result,
                         meddled, faulted>>
          /\ at[l] = "listen"
      BY <1>5, <2>2 DEF BindListen, BindFails
    <3>3. entry' \in Entry
      BY <3>1 DEF Creates
    <3>4. raced' \in BOOLEAN
      BY <3>1, Zenon DEF Creates
    <3>5. at' \in [Listener -> Bind \cup Cleanup \cup {"bound", "failed", "gone"}]
      BY <3>2 DEF Goes
    <3>6. inner' \in [Listener -> BOOLEAN]
      BY <3>2
    <3> QED BY <3>2, <3>3, <3>4, <3>5, <3>6
  <2> QED BY <1>5, <2>1, <2>2 DEF BindListen
<1>6. ASSUME NEW l \in Listener, BindInspect(l) PROVE ListenTypeOK'
  <2>1. CASE BindFails(l, "Io") \/ BindFails(l, "AccessPolicy")
    BY <2>1, BindFailsType DEF BindFails
  <2>2. CASE ~BindFails(l, "Io") /\ ~BindFails(l, "AccessPolicy")
    BY <1>6, <2>2 DEF BindInspect, Goes, Returns, fs, own, hist
  <2> QED BY <2>1, <2>2
<1>7. ASSUME NEW l \in Listener, BindChmod(l) PROVE ListenTypeOK'
    BY <1>7, SMTT(30) DEF BindChmod, Goes, Returns, fs, own, hist
<1>8. ASSUME NEW l \in Listener, BindChmodFails(l) PROVE ListenTypeOK'
    BY <1>8, SMTT(30) DEF BindChmodFails, Goes, Returns, fs, own, hist
<1>9. ASSUME NEW l \in Listener, BindRecheck(l) PROVE ListenTypeOK'
  <2>1. CASE BindFails(l, "Io") \/ BindFails(l, "AccessPolicy")
    BY <2>1, BindFailsType DEF BindFails
  <2>2. CASE ~BindFails(l, "Io") /\ ~BindFails(l, "AccessPolicy")
    BY <1>9, <2>2 DEF BindRecheck, Goes, Returns, fs, own, hist, PrivateDirectory
  <2> QED BY <2>1, <2>2
<1>10. ASSUME NEW l \in Listener, BindIoError(l) PROVE ListenTypeOK'
    BY <1>10, SMTT(30) DEF BindIoError, Goes, Returns, fs, own, hist, BindFails, BindCloses,
       NoListener
<1>11. ASSUME NEW l \in Listener, NEW peer \in {"own", "other"}, AcceptPeer(l, peer)
       PROVE  ListenTypeOK'
    BY <1>11, SMTT(30) DEF AcceptPeer, Goes, Returns, fs, own, hist
<1>12. ASSUME NEW l \in Listener, CallCleanup(l) PROVE ListenTypeOK'
    BY <1>12, SMTT(30) DEF CallCleanup, Goes, Returns, fs, own, hist
<1>13. ASSUME NEW l \in Listener, CleanupVerify(l) PROVE ListenTypeOK'
  <2>1. CASE CleanupFails(l, "AccessPolicy") /\ UNCHANGED faulted
    <3>1. inner' \in [Listener -> BOOLEAN]
      BY <2>1, Zenon DEF CleanupFails
    <3> QED BY <2>1, <3>1, CleanupReturnsType, Zenon DEF CleanupFails
  <2>2. CASE Goes(l, "identify") /\ UNCHANGED <<fs, parent, socket, inner, cleaned, binding,
                                               result, hist>>
    BY <2>2 DEF Goes, fs, hist
  <2> QED BY <1>13, <2>1, <2>2, Zenon DEF CleanupVerify
<1>14. ASSUME NEW l \in Listener, CleanupIdentify(l) PROVE ListenTypeOK'
  <2>1. CASE CleanupSucceeds(l) /\ UNCHANGED entry
    <3>1. inner' \in [Listener -> BOOLEAN] /\ cleaned' \in [Listener -> BOOLEAN]
      BY <2>1, Zenon DEF CleanupSucceeds
    <3> QED BY <2>1, <3>1, CleanupReturnsType, Zenon DEF CleanupSucceeds
  <2>2. CASE CleanupFails(l, "AccessPolicy") /\ UNCHANGED faulted
    <3>1. inner' \in [Listener -> BOOLEAN]
      BY <2>2, Zenon DEF CleanupFails
    <3> QED BY <2>2, <3>1, CleanupReturnsType, Zenon DEF CleanupFails
  <2>3. CASE Goes(l, "remove") /\ UNCHANGED <<fs, parent, socket, inner, cleaned, binding,
                                             result, hist>>
    BY <2>3 DEF Goes, fs, hist
  <2> QED BY <1>14, <2>1, <2>2, <2>3, Zenon DEF CleanupIdentify
<1>15. ASSUME NEW l \in Listener, CleanupRemove(l) PROVE ListenTypeOK'
    BY <1>15, SMTT(30) DEF CleanupRemove, Goes, Returns, fs, own, hist, CleanupReturns,
       CleanupSucceeds
<1>16. ASSUME NEW l \in Listener, CleanupIoError(l) PROVE ListenTypeOK'
    BY <1>16, SMTT(30) DEF CleanupIoError, Goes, Returns, fs, own, hist, CleanupFails,
       CleanupReturns
<1>17. ASSUME NEW l \in Listener, Ends(l) PROVE ListenTypeOK'
    BY <1>17, SMTT(30) DEF Ends, Goes, Returns, fs, own, hist, NoListener
<1>18. ASSUME OutsideUnlinks PROVE ListenTypeOK'
    BY <1>18, SMTT(30) DEF OutsideUnlinks, Goes, Returns, fs, own, hist, Meddles, Relied
<1>19. ASSUME OutsideCreates PROVE ListenTypeOK'
    BY <1>19, SMTT(30) DEF OutsideCreates, Goes, Returns, fs, own, hist, Meddles, Relied,
       Creates
<1>20. ASSUME OutsideChmods PROVE ListenTypeOK'
    BY <1>20, SMTT(30) DEF OutsideChmods, Goes, Returns, fs, own, hist, Meddles
<1>21. ASSUME OutsideMovesDirectory PROVE ListenTypeOK'
    BY <1>21, SMTT(30) DEF OutsideMovesDirectory, Goes, Returns, fs, own, hist, Meddles, Relied
<1>22. CASE UNCHANGED listenVars
    BY <1>22, SMTT(30) DEF listenVars, fs, own, hist
<1> HIDE DEF ListenTypeOK
<1> QED
    BY <1>1, <1>2, <1>3, <1>4, <1>5, <1>6, <1>7, <1>8, <1>9, <1>10, <1>11, <1>12,
       <1>13, <1>14, <1>15, <1>16, <1>17, <1>18, <1>19, <1>20, <1>21, <1>22 DEF ListenNext,
       Steps, Outside

\* Every step keeps a listener's fields in accord with its position.
LEMMA PositionsStep ==
    ASSUME ListenTypeOK, Positions, [ListenNext]_listenVars
    PROVE  Positions'
<1> USE ListenerAssumption DEF ListenTypeOK, Entry, Missing, Bind, Cleanup, Result,
       Positions, Early, Held, Owns
<1>1. ASSUME NEW l \in Listener, BindTcp(l) PROVE Positions'
    BY <1>1, SMTT(30) DEF BindTcp, Goes, Returns, fs, own, hist
<1>2. ASSUME NEW l \in Listener, BindParent(l) PROVE Positions'
    BY <1>2, SMTT(30) DEF BindParent, Goes, Returns, fs, own, hist, BindFails, BindCloses,
       NoListener, PrivateDirectory
<1>3. ASSUME NEW l \in Listener, BindCanonical(l) PROVE Positions'
    BY <1>3, SMTT(30) DEF BindCanonical, Goes, Returns, fs, own, hist, BindFails, BindCloses,
       NoListener, PrivateDirectory
<1>4. ASSUME NEW l \in Listener, BindProbe(l) PROVE Positions'
    BY <1>4, SMTT(30) DEF BindProbe, Goes, Returns, fs, own, hist, BindFails, BindCloses,
       NoListener
<1>5. ASSUME NEW l \in Listener, BindListen(l) PROVE Positions'
  <2>1. CASE entry # Missing /\ BindFails(l, "Io")
    BY <2>1, <1>5 DEF BindFails, BindCloses, NoListener, Goes, Returns, fs
  <2>2. CASE entry = Missing
    <3>1. PICK i \in Inodes : Creates(l, i, TRUE, raced)
      BY <1>5, <2>2 DEF BindListen, BindFails
    <3>2. /\ inner' = [inner EXCEPT ![l] = TRUE] /\ Goes(l, "inspect")
          /\ UNCHANGED <<dir, private, away, parent, socket, cleaned, binding, result,
                         meddled, faulted>>
          /\ at[l] = "listen"
      BY <1>5, <2>2 DEF BindListen, BindFails
    <3>3. entry' # Missing /\ entry'.creator = l
      BY <3>1 DEF Creates
    <3>4. \A m \in Listener \ {l} : entry.creator # m /\ entry'.creator # m
                                       /\ at'[m] = at[m] /\ inner'[m] = inner[m]
      BY <2>2, <3>2, <3>3 DEF Goes
    <3>5. at'[l] = "inspect" /\ inner'[l] = TRUE
      BY <3>2 DEF Goes
    <3>6. l \notin Tcp /\ ~cleaned[l]
      BY <3>2
    <3> QED BY <3>2, <3>3, <3>4, <3>5, <3>6
  <2> QED BY <1>5, <2>1, <2>2 DEF BindListen
<1>6. ASSUME NEW l \in Listener, BindInspect(l) PROVE Positions'
    BY <1>6, SMTT(30) DEF BindInspect, Goes, Returns, fs, own, hist, BindFails, BindCloses,
       NoListener
<1>7. ASSUME NEW l \in Listener, BindChmod(l) PROVE Positions'
    BY <1>7, SMTT(30) DEF BindChmod, Goes, Returns, fs, own, hist
<1>8. ASSUME NEW l \in Listener, BindChmodFails(l) PROVE Positions'
    BY <1>8, SMTT(30) DEF BindChmodFails, Goes, Returns, fs, own, hist
<1>9. ASSUME NEW l \in Listener, BindRecheck(l) PROVE Positions'
    BY <1>9, SMTT(30) DEF BindRecheck, Goes, Returns, fs, own, hist, BindFails, BindCloses,
       NoListener, PrivateDirectory
<1>10. ASSUME NEW l \in Listener, BindIoError(l) PROVE Positions'
    BY <1>10, SMTT(30) DEF BindIoError, Goes, Returns, fs, own, hist, BindFails, BindCloses,
       NoListener
<1>11. ASSUME NEW l \in Listener, NEW peer \in {"own", "other"}, AcceptPeer(l, peer)
       PROVE  Positions'
    BY <1>11, SMTT(30) DEF AcceptPeer, Goes, Returns, fs, own, hist
<1>12. ASSUME NEW l \in Listener, CallCleanup(l) PROVE Positions'
    BY <1>12, SMTT(30) DEF CallCleanup, Goes, Returns, fs, own, hist
<1>13. ASSUME NEW l \in Listener, CleanupVerify(l) PROVE Positions'
    BY <1>13, SMTT(30) DEF CleanupVerify, Goes, Returns, fs, own, hist, CleanupFails,
       CleanupReturns, PrivateDirectory
<1>14. ASSUME NEW l \in Listener, CleanupIdentify(l) PROVE Positions'
    BY <1>14, SMTT(30) DEF CleanupIdentify, Goes, Returns, fs, own, hist, CleanupFails,
       CleanupReturns, CleanupSucceeds, Identified
<1>15. ASSUME NEW l \in Listener, CleanupRemove(l) PROVE Positions'
    BY <1>15, SMTT(30) DEF CleanupRemove, Goes, Returns, fs, own, hist, CleanupReturns,
       CleanupSucceeds
<1>16. ASSUME NEW l \in Listener, CleanupIoError(l) PROVE Positions'
    BY <1>16, SMTT(30) DEF CleanupIoError, Goes, Returns, fs, own, hist, CleanupFails,
       CleanupReturns
<1>17. ASSUME NEW l \in Listener, Ends(l) PROVE Positions'
    BY <1>17, SMTT(30) DEF Ends, Goes, Returns, fs, own, hist, NoListener
<1>18. ASSUME OutsideUnlinks PROVE Positions'
    BY <1>18, SMTT(30) DEF OutsideUnlinks, Goes, Returns, fs, own, hist, Meddles, Relied
<1>19. ASSUME OutsideCreates PROVE Positions'
    BY <1>19, SMTT(30) DEF OutsideCreates, Goes, Returns, fs, own, hist, Meddles, Relied,
       Creates
<1>20. ASSUME OutsideChmods PROVE Positions'
    BY <1>20, SMTT(30) DEF OutsideChmods, Goes, Returns, fs, own, hist, Meddles
<1>21. ASSUME OutsideMovesDirectory PROVE Positions'
    BY <1>21, SMTT(30) DEF OutsideMovesDirectory, Goes, Returns, fs, own, hist, Meddles, Relied
<1>22. CASE UNCHANGED listenVars
    BY <1>22, SMTT(30) DEF listenVars, fs, own, hist
<1> HIDE DEF Positions
<1> QED
    BY <1>1, <1>2, <1>3, <1>4, <1>5, <1>6, <1>7, <1>8, <1>9, <1>10, <1>11, <1>12,
       <1>13, <1>14, <1>15, <1>16, <1>17, <1>18, <1>19, <1>20, <1>21, <1>22 DEF ListenNext,
       Steps, Outside

\* Without a race, a step leaves alone what other listeners rely on.
LEMMA TrustedStep ==
    ASSUME ListenTypeOK, Positions, Trusted, [ListenNext]_listenVars
    PROVE  Trusted'
<1> USE ListenerAssumption DEF ListenTypeOK, Entry, Missing, Bind, Cleanup, Result,
       Positions, Trusted, Early, Held, Owns
<1>1. ASSUME NEW l \in Listener, BindTcp(l) PROVE Trusted'
    BY <1>1, SMTT(30) DEF BindTcp, Goes, Returns, fs, own, hist
<1>2. ASSUME NEW l \in Listener, BindParent(l) PROVE Trusted'
    BY <1>2, SMTT(30) DEF BindParent, Goes, Returns, fs, own, hist, BindFails, BindCloses,
       NoListener, PrivateDirectory
<1>3. ASSUME NEW l \in Listener, BindCanonical(l) PROVE Trusted'
    BY <1>3, SMTT(30) DEF BindCanonical, Goes, Returns, fs, own, hist, BindFails, BindCloses,
       NoListener, PrivateDirectory
<1>4. ASSUME NEW l \in Listener, BindProbe(l) PROVE Trusted'
    BY <1>4, SMTT(30) DEF BindProbe, Goes, Returns, fs, own, hist, BindFails, BindCloses,
       NoListener
<1>5. ASSUME NEW l \in Listener, BindListen(l) PROVE Trusted'
    BY <1>5, SMTT(30) DEF BindListen, Goes, Returns, fs, own, hist, BindFails, BindCloses,
       NoListener, Creates
<1>6. ASSUME NEW l \in Listener, BindInspect(l) PROVE Trusted'
    BY <1>6, SMTT(30) DEF BindInspect, Goes, Returns, fs, own, hist, BindFails, BindCloses,
       NoListener
<1>7. ASSUME NEW l \in Listener, BindChmod(l) PROVE Trusted'
    BY <1>7, SMTT(30) DEF BindChmod, Goes, Returns, fs, own, hist
<1>8. ASSUME NEW l \in Listener, BindChmodFails(l) PROVE Trusted'
    BY <1>8, SMTT(30) DEF BindChmodFails, Goes, Returns, fs, own, hist
<1>9. ASSUME NEW l \in Listener, BindRecheck(l) PROVE Trusted'
    BY <1>9, SMTT(30) DEF BindRecheck, Goes, Returns, fs, own, hist, BindFails, BindCloses,
       NoListener, PrivateDirectory
<1>10. ASSUME NEW l \in Listener, BindIoError(l) PROVE Trusted'
    BY <1>10, SMTT(30) DEF BindIoError, Goes, Returns, fs, own, hist, BindFails, BindCloses,
       NoListener
<1>11. ASSUME NEW l \in Listener, NEW peer \in {"own", "other"}, AcceptPeer(l, peer)
       PROVE  Trusted'
    BY <1>11, SMTT(30) DEF AcceptPeer, Goes, Returns, fs, own, hist
<1>12. ASSUME NEW l \in Listener, CallCleanup(l) PROVE Trusted'
    BY <1>12, SMTT(30) DEF CallCleanup, Goes, Returns, fs, own, hist
<1>13. ASSUME NEW l \in Listener, CleanupVerify(l) PROVE Trusted'
    BY <1>13, SMTT(30) DEF CleanupVerify, Goes, Returns, fs, own, hist, CleanupFails,
       CleanupReturns, PrivateDirectory
<1>14. ASSUME NEW l \in Listener, CleanupIdentify(l) PROVE Trusted'
    BY <1>14, SMTT(30) DEF CleanupIdentify, Goes, Returns, fs, own, hist, CleanupFails,
       CleanupReturns, CleanupSucceeds, Identified
<1>15. ASSUME NEW l \in Listener, CleanupRemove(l) PROVE Trusted'
    BY <1>15, SMTT(30) DEF CleanupRemove, Goes, Returns, fs, own, hist, CleanupReturns,
       CleanupSucceeds
<1>16. ASSUME NEW l \in Listener, CleanupIoError(l) PROVE Trusted'
    BY <1>16, SMTT(30) DEF CleanupIoError, Goes, Returns, fs, own, hist, CleanupFails,
       CleanupReturns
<1>17. ASSUME NEW l \in Listener, Ends(l) PROVE Trusted'
    BY <1>17, SMTT(30) DEF Ends, Goes, Returns, fs, own, hist, NoListener
<1>18. ASSUME OutsideUnlinks PROVE Trusted'
    BY <1>18, SMTT(30) DEF OutsideUnlinks, Goes, Returns, fs, own, hist, Meddles, Relied
<1>19. ASSUME OutsideCreates PROVE Trusted'
    BY <1>19, SMTT(30) DEF OutsideCreates, Goes, Returns, fs, own, hist, Meddles, Relied,
       Creates
<1>20. ASSUME OutsideChmods PROVE Trusted'
    BY <1>20, SMTT(30) DEF OutsideChmods, Goes, Returns, fs, own, hist, Meddles
<1>21. ASSUME OutsideMovesDirectory PROVE Trusted'
    BY <1>21, SMTT(30) DEF OutsideMovesDirectory, Goes, Returns, fs, own, hist, Meddles, Relied
<1>22. CASE UNCHANGED listenVars
    BY <1>22, SMTT(30) DEF listenVars, fs, own, hist
<1> HIDE DEF Trusted
<1> QED
    BY <1>1, <1>2, <1>3, <1>4, <1>5, <1>6, <1>7, <1>8, <1>9, <1>10, <1>11, <1>12,
       <1>13, <1>14, <1>15, <1>16, <1>17, <1>18, <1>19, <1>20, <1>21, <1>22 DEF ListenNext,
       Steps, Outside

\* Listeners do not disturb each other.
LEMMA UndisturbedStep ==
    ASSUME ListenTypeOK, Positions, Undisturbed, [ListenNext]_listenVars
    PROVE  Undisturbed'
<1> USE ListenerAssumption DEF ListenTypeOK, Entry, Missing, Bind, Cleanup, Result,
       Positions, Undisturbed, Early, Held, Owns
<1>1. ASSUME NEW l \in Listener, BindTcp(l) PROVE Undisturbed'
    BY <1>1, SMTT(30) DEF BindTcp, Goes, Returns, fs, own, hist
<1>2. ASSUME NEW l \in Listener, BindParent(l) PROVE Undisturbed'
    BY <1>2, SMTT(30) DEF BindParent, Goes, Returns, fs, own, hist, BindFails, BindCloses,
       NoListener, PrivateDirectory
<1>3. ASSUME NEW l \in Listener, BindCanonical(l) PROVE Undisturbed'
    BY <1>3, SMTT(30) DEF BindCanonical, Goes, Returns, fs, own, hist, BindFails, BindCloses,
       NoListener, PrivateDirectory
<1>4. ASSUME NEW l \in Listener, BindProbe(l) PROVE Undisturbed'
    BY <1>4, SMTT(30) DEF BindProbe, Goes, Returns, fs, own, hist, BindFails, BindCloses,
       NoListener
<1>5. ASSUME NEW l \in Listener, BindListen(l) PROVE Undisturbed'
    BY <1>5, SMTT(30) DEF BindListen, Goes, Returns, fs, own, hist, BindFails, BindCloses,
       NoListener, Creates
<1>6. ASSUME NEW l \in Listener, BindInspect(l) PROVE Undisturbed'
    BY <1>6, SMTT(30) DEF BindInspect, Goes, Returns, fs, own, hist, BindFails, BindCloses,
       NoListener
<1>7. ASSUME NEW l \in Listener, BindChmod(l) PROVE Undisturbed'
    BY <1>7, SMTT(30) DEF BindChmod, Goes, Returns, fs, own, hist
<1>8. ASSUME NEW l \in Listener, BindChmodFails(l) PROVE Undisturbed'
    BY <1>8, SMTT(30) DEF BindChmodFails, Goes, Returns, fs, own, hist
<1>9. ASSUME NEW l \in Listener, BindRecheck(l) PROVE Undisturbed'
    BY <1>9, SMTT(30) DEF BindRecheck, Goes, Returns, fs, own, hist, BindFails, BindCloses,
       NoListener, PrivateDirectory
<1>10. ASSUME NEW l \in Listener, BindIoError(l) PROVE Undisturbed'
    BY <1>10, SMTT(30) DEF BindIoError, Goes, Returns, fs, own, hist, BindFails, BindCloses,
       NoListener
<1>11. ASSUME NEW l \in Listener, NEW peer \in {"own", "other"}, AcceptPeer(l, peer)
       PROVE  Undisturbed'
    BY <1>11, SMTT(30) DEF AcceptPeer, Goes, Returns, fs, own, hist
<1>12. ASSUME NEW l \in Listener, CallCleanup(l) PROVE Undisturbed'
    BY <1>12, SMTT(30) DEF CallCleanup, Goes, Returns, fs, own, hist
<1>13. ASSUME NEW l \in Listener, CleanupVerify(l) PROVE Undisturbed'
    BY <1>13, SMTT(30) DEF CleanupVerify, Goes, Returns, fs, own, hist, CleanupFails,
       CleanupReturns, PrivateDirectory
<1>14. ASSUME NEW l \in Listener, CleanupIdentify(l) PROVE Undisturbed'
    BY <1>14, SMTT(30) DEF CleanupIdentify, Goes, Returns, fs, own, hist, CleanupFails,
       CleanupReturns, CleanupSucceeds, Identified
<1>15. ASSUME NEW l \in Listener, CleanupRemove(l) PROVE Undisturbed'
    BY <1>15, SMTT(30) DEF CleanupRemove, Goes, Returns, fs, own, hist, CleanupReturns,
       CleanupSucceeds
<1>16. ASSUME NEW l \in Listener, CleanupIoError(l) PROVE Undisturbed'
    BY <1>16, SMTT(30) DEF CleanupIoError, Goes, Returns, fs, own, hist, CleanupFails,
       CleanupReturns
<1>17. ASSUME NEW l \in Listener, Ends(l) PROVE Undisturbed'
    BY <1>17, SMTT(30) DEF Ends, Goes, Returns, fs, own, hist, NoListener
<1>18. ASSUME OutsideUnlinks PROVE Undisturbed'
    BY <1>18, SMTT(30) DEF OutsideUnlinks, Goes, Returns, fs, own, hist, Meddles, Relied
<1>19. ASSUME OutsideCreates PROVE Undisturbed'
    BY <1>19, SMTT(30) DEF OutsideCreates, Goes, Returns, fs, own, hist, Meddles, Relied,
       Creates
<1>20. ASSUME OutsideChmods PROVE Undisturbed'
    BY <1>20, SMTT(30) DEF OutsideChmods, Goes, Returns, fs, own, hist, Meddles
<1>21. ASSUME OutsideMovesDirectory PROVE Undisturbed'
    BY <1>21, SMTT(30) DEF OutsideMovesDirectory, Goes, Returns, fs, own, hist, Meddles, Relied
<1>22. CASE UNCHANGED listenVars
    BY <1>22, SMTT(30) DEF listenVars, fs, own, hist
<1> HIDE DEF Undisturbed
<1> QED
    BY <1>1, <1>2, <1>3, <1>4, <1>5, <1>6, <1>7, <1>8, <1>9, <1>10, <1>11, <1>12,
       <1>13, <1>14, <1>15, <1>16, <1>17, <1>18, <1>19, <1>20, <1>21, <1>22 DEF ListenNext,
       Steps, Outside

\* A step that makes bind fail takes its socket away or has a cause not to.
LEMMA LeftoverStep ==
    ASSUME ListenTypeOK, Positions, Undisturbed, LeftoverHasACause, [ListenNext]_listenVars
    PROVE  LeftoverHasACause'
<1> USE ListenerAssumption DEF ListenTypeOK, Entry, Missing, Bind, Cleanup, Result,
       Positions, Undisturbed, LeftoverHasACause, Early, Held, Owns
<1>1. ASSUME NEW l \in Listener, BindTcp(l) PROVE LeftoverHasACause'
    BY <1>1, SMTT(30) DEF BindTcp, Goes, Returns, fs, own, hist
<1>2. ASSUME NEW l \in Listener, BindParent(l) PROVE LeftoverHasACause'
    BY <1>2, SMTT(30) DEF BindParent, Goes, Returns, fs, own, hist, BindFails, BindCloses,
       NoListener, PrivateDirectory
<1>3. ASSUME NEW l \in Listener, BindCanonical(l) PROVE LeftoverHasACause'
    BY <1>3, SMTT(30) DEF BindCanonical, Goes, Returns, fs, own, hist, BindFails, BindCloses,
       NoListener, PrivateDirectory
<1>4. ASSUME NEW l \in Listener, BindProbe(l) PROVE LeftoverHasACause'
    BY <1>4, SMTT(30) DEF BindProbe, Goes, Returns, fs, own, hist, BindFails, BindCloses,
       NoListener
<1>5. ASSUME NEW l \in Listener, BindListen(l) PROVE LeftoverHasACause'
    BY <1>5, SMTT(30) DEF BindListen, Goes, Returns, fs, own, hist, BindFails, BindCloses,
       NoListener, Creates
<1>6. ASSUME NEW l \in Listener, BindInspect(l) PROVE LeftoverHasACause'
    BY <1>6, SMTT(30) DEF BindInspect, Goes, Returns, fs, own, hist, BindFails, BindCloses,
       NoListener
<1>7. ASSUME NEW l \in Listener, BindChmod(l) PROVE LeftoverHasACause'
    BY <1>7, SMTT(30) DEF BindChmod, Goes, Returns, fs, own, hist
<1>8. ASSUME NEW l \in Listener, BindChmodFails(l) PROVE LeftoverHasACause'
    BY <1>8, SMTT(30) DEF BindChmodFails, Goes, Returns, fs, own, hist
<1>9. ASSUME NEW l \in Listener, BindRecheck(l) PROVE LeftoverHasACause'
    BY <1>9, SMTT(30) DEF BindRecheck, Goes, Returns, fs, own, hist, BindFails, BindCloses,
       NoListener, PrivateDirectory
<1>10. ASSUME NEW l \in Listener, BindIoError(l) PROVE LeftoverHasACause'
    BY <1>10, SMTT(30) DEF BindIoError, Goes, Returns, fs, own, hist, BindFails, BindCloses,
       NoListener
<1>11. ASSUME NEW l \in Listener, NEW peer \in {"own", "other"}, AcceptPeer(l, peer)
       PROVE  LeftoverHasACause'
    BY <1>11, SMTT(30) DEF AcceptPeer, Goes, Returns, fs, own, hist
<1>12. ASSUME NEW l \in Listener, CallCleanup(l) PROVE LeftoverHasACause'
    BY <1>12, SMTT(30) DEF CallCleanup, Goes, Returns, fs, own, hist
<1>13. ASSUME NEW l \in Listener, CleanupVerify(l) PROVE LeftoverHasACause'
    BY <1>13, SMTT(30) DEF CleanupVerify, Goes, Returns, fs, own, hist, CleanupFails,
       CleanupReturns, PrivateDirectory
<1>14. ASSUME NEW l \in Listener, CleanupIdentify(l) PROVE LeftoverHasACause'
    BY <1>14, SMTT(30) DEF CleanupIdentify, Goes, Returns, fs, own, hist, CleanupFails,
       CleanupReturns, CleanupSucceeds, Identified
<1>15. ASSUME NEW l \in Listener, CleanupRemove(l) PROVE LeftoverHasACause'
    BY <1>15, SMTT(30) DEF CleanupRemove, Goes, Returns, fs, own, hist, CleanupReturns,
       CleanupSucceeds
<1>16. ASSUME NEW l \in Listener, CleanupIoError(l) PROVE LeftoverHasACause'
    BY <1>16, SMTT(30) DEF CleanupIoError, Goes, Returns, fs, own, hist, CleanupFails,
       CleanupReturns
<1>17. ASSUME NEW l \in Listener, Ends(l) PROVE LeftoverHasACause'
    BY <1>17, SMTT(30) DEF Ends, Goes, Returns, fs, own, hist, NoListener
<1>18. ASSUME OutsideUnlinks PROVE LeftoverHasACause'
    BY <1>18, SMTT(30) DEF OutsideUnlinks, Goes, Returns, fs, own, hist, Meddles, Relied
<1>19. ASSUME OutsideCreates PROVE LeftoverHasACause'
    BY <1>19, SMTT(30) DEF OutsideCreates, Goes, Returns, fs, own, hist, Meddles, Relied,
       Creates
<1>20. ASSUME OutsideChmods PROVE LeftoverHasACause'
    BY <1>20, SMTT(30) DEF OutsideChmods, Goes, Returns, fs, own, hist, Meddles
<1>21. ASSUME OutsideMovesDirectory PROVE LeftoverHasACause'
    BY <1>21, SMTT(30) DEF OutsideMovesDirectory, Goes, Returns, fs, own, hist, Meddles, Relied
<1>22. CASE UNCHANGED listenVars
    BY <1>22, SMTT(30) DEF listenVars, fs, own, hist
<1> HIDE DEF LeftoverHasACause
<1> QED
    BY <1>1, <1>2, <1>3, <1>4, <1>5, <1>6, <1>7, <1>8, <1>9, <1>10, <1>11, <1>12,
       <1>13, <1>14, <1>15, <1>16, <1>17, <1>18, <1>19, <1>20, <1>21, <1>22 DEF ListenNext,
       Steps, Outside

\* Nothing is bound yet.
LEMMA InitIInv == ListenInit => ListenInv
<1> SUFFICES ASSUME ListenInit PROVE ListenInv
    OBVIOUS
<1> USE ListenerAssumption DEF ListenInit
<1>1. ListenTypeOK
    BY DEF ListenTypeOK, Entry, Missing, Bind, Cleanup, Result
<1>2. \A l \in Listener : at[l] = "new" /\ ~inner[l] /\ ~cleaned[l] /\ socket[l] = "none"
    OBVIOUS
<1>3. \A l \in Listener : entry.creator # l
    BY DEF Missing
<1>4. Positions /\ Trusted /\ Undisturbed /\ LeftoverHasACause
    BY <1>2, <1>3
    DEF Positions, Trusted, Undisturbed, LeftoverHasACause, Early, Held, Owns, Cleanup
<1> QED
    BY <1>1, <1>4 DEF ListenInv

\* The conjunction of the invariants is inductive.
THEOREM Inductive == ListenSpec => []ListenInv
<1>1. ListenInit => ListenInv
    BY InitIInv
<1>2. ListenInv /\ [ListenNext]_listenVars => ListenInv'
    BY ListenTypeStep, PositionsStep, TrustedStep, UndisturbedStep, LeftoverStep DEF ListenInv
<1> QED
    BY <1>1, <1>2, PTL DEF ListenSpec

\* However many listeners share a path, their binds and cleanups interleave and
\* crash (unix.rs:34-123): unless an outside program raced, a cleanup removes no
\* socket but its own.
THEOREM CleanupRemovesItsOwn == ListenSpec => OnlyOwnSocketRemoved
<1>1. ListenInv /\ [ListenNext]_listenVars =>
          [\A l \in Listener : CleanupRemove(l) => entry.creator = l \/ raced]_listenVars
    BY DEF ListenInv, Trusted, CleanupRemove
<1> QED
    BY <1>1, Inductive, PTL DEF ListenSpec, OnlyOwnSocketRemoved

\* "Success closes the listener", "On failure the listener remains available"
\* (listener.rs:107-119), whatever happens to the path.
THEOREM CleanupDocumented == ListenSpec => []CleanupClosesOrKeeps
<1>1. ListenInv => CleanupClosesOrKeeps
    BY DEF ListenInv, Positions, CleanupClosesOrKeeps
<1> QED
    BY <1>1, Inductive, PTL

\* A failed bind (unix.rs:67-71) leaves its socket behind only with a cause.
THEOREM FailedBindCleansUp == ListenSpec => []LeftoverHasACause
<1>1. ListenInv => LeftoverHasACause
    BY DEF ListenInv
<1> QED
    BY <1>1, Inductive, PTL

-----------------------------------------------------------------------------
(* Discovery *)

\* A read takes n bytes off the front of a pipe.
LEMMA TakesFront ==
    ASSUME NEW s \in Seq(Byte), NEW n \in Nat, n <= Len(s)
    PROVE  /\ SubSeq(s, 1, n) \in Seq(Byte) /\ Len(SubSeq(s, 1, n)) = n
           /\ SubSeq(s, n + 1, Len(s)) \in Seq(Byte)
           /\ Len(SubSeq(s, n + 1, Len(s))) = Len(s) - n
OBVIOUS

(***************************************************************************)
(* Before the child is spawned nothing has been written or charged; this is*)
(* what makes the two safety invariants inductive.                         *)
(***************************************************************************)
NewInv ==
    phase = "new" => /\ child = "none"
                     /\ budget = OutputLimit
                     /\ Consumed("stdout") = 0 /\ Consumed("stderr") = 0

IInv == TypeOK /\ NewInv /\ BudgetIsShared /\ NoChildLeft

\* IInv holds initially.
LEMMA InvInit == Init => IInv
<1> SUFFICES ASSUME Init PROVE IInv
  OBVIOUS
<1>1. TypeOK
  <2>1. <<>> \in Seq(Byte)
    OBVIOUS
  <2>2. content \in [Pipe -> Seq(Byte)] /\ written \in [Pipe -> Seq(Byte)]
    BY <2>1 DEF Init
  <2>3. budget \in 0..OutputLimit
    BY DiscoveryAssumption DEF Init
  <2> QED BY <2>1, <2>2, <2>3, Zenon DEF Init, TypeOK
<1>2. Consumed("stdout") = 0 /\ Consumed("stderr") = 0
  BY DEF Init, Consumed, Pipe
<1>3. NewInv /\ NoChildLeft
  BY <1>2 DEF Init, NewInv, NoChildLeft
<1>4. BudgetIsShared
  BY DiscoveryAssumption DEF Init, BudgetIsShared
<1> QED BY <1>1, <1>3, <1>4 DEF IInv

\* What a resolved path can be.
LEMMA PathType ==
    ASSUME NEW bytes \in Seq(Byte), NEW p \in OutputPath(bytes)
    PROVE  p \in Seq(Byte)
<1>1. OutputPath(bytes) # {} => Len(bytes) > 1
  BY DEF OutputPath
<1>2. Len(bytes) > 1 => SubSeq(bytes, 1, Len(bytes) - 1) \in Seq(Byte)
  OBVIOUS
<1> QED BY <1>1, <1>2 DEF OutputPath

\* A read keeps IInv: what it takes from a pipe it charges to the budget.
LEMMA ReadStep ==
    ASSUME IInv, NEW p \in Pipe, Read(p)
    PROVE  IInv'
<1> USE DEF IInv, TypeOK, NewInv, BudgetIsShared, NoChildLeft, Consumed, Pipe
<1>1. PICK n \in 1..Scratch :
         /\ n <= Len(content[p])
         /\ content' = [content EXCEPT ![p] = SubSeq(@, n + 1, Len(@))]
         /\ \/ /\ ~Affords(n)
               /\ Fails("OutputLimit")
               /\ UNCHANGED <<budget, output>>
            \/ /\ Affords(n)
               /\ budget' = Charged(p, n)
               /\ output' = IF p = "stdout" THEN output \o SubSeq(content[p], 1, n) ELSE output
               /\ UNCHANGED <<phase, outcome, killed>>
  BY Zenon DEF Read
<1>2. n \in Nat /\ n > 0
  BY DiscoveryAssumption
<1>3. /\ phase = "join" /\ UNCHANGED <<child, success, held, written, reader, expired, path>>
  BY DEF Read
<1>4. /\ SubSeq(content[p], 1, n) \in Seq(Byte) /\ Len(SubSeq(content[p], 1, n)) = n
      /\ SubSeq(content[p], n + 1, Len(content[p])) \in Seq(Byte)
      /\ Len(SubSeq(content[p], n + 1, Len(content[p]))) = Len(content[p]) - n
  BY <1>1, <1>2, TakesFront
<1>5. /\ content' \in [Pipe -> Seq(Byte)]
      /\ Len(content'[p]) = Len(content[p]) - n
      /\ \A q \in Pipe \ {p} : content'[q] = content[q]
  BY <1>1, <1>4
<1>6. CASE ~Affords(n)
  <2>1. /\ phase' = "kill" /\ outcome' = "OutputLimit" /\ killed' \in BOOLEAN
        /\ UNCHANGED <<budget, output>>
    BY <1>1, <1>6, Zenon DEF Fails
  <2> QED BY <2>1, <1>3, <1>5 DEF Errors
<1>7. CASE Affords(n)
  <2>1. /\ budget' = budget - n /\ n <= budget
        /\ output' = IF p = "stdout" THEN output \o SubSeq(content[p], 1, n) ELSE output
        /\ UNCHANGED <<phase, outcome, killed>>
    BY <1>1, <1>7 DEF Charged, Affords
  <2>2. output' \in Seq(Byte) /\ Len(output') <= Len(output) + n
    BY <2>1, <1>2, <1>4
  <2>3. budget' \in 0..OutputLimit
    BY <2>1, <1>2, DiscoveryAssumption
  <2>4. TypeOK'
    BY <1>3, <1>5, <2>1, <2>2, <2>3, SMTT(30)
  <2>5. Consumed("stdout")' + Consumed("stderr")' = Consumed("stdout") + Consumed("stderr") + n
    <3>1. CASE p = "stdout"
      <4>1. content'["stderr"] = content["stderr"]
        BY <3>1, <1>5
      <4> QED BY <3>1, <4>1, <1>2, <1>3, <1>5
    <3>2. CASE p = "stderr"
      <4>1. content'["stdout"] = content["stdout"]
        BY <3>2, <1>5
      <4> QED BY <3>2, <4>1, <1>2, <1>3, <1>5
    <3> QED BY <3>1, <3>2, Zenon
  <2>6. BudgetIsShared'
    <3>1. Len(output) \in Nat /\ Len(output') \in Nat
      BY <2>2
    <3>2. Len(output') <= OutputLimit - budget'
      BY <1>2, <2>1, <2>2, <3>1, DiscoveryAssumption
    <3>3. Consumed("stdout") + Consumed("stderr") \in Int
      OBVIOUS
    <3>4. Consumed("stdout")' + Consumed("stderr")' + budget' = OutputLimit
      <4> HIDE DEF Consumed
      <4>1. Consumed("stdout") + Consumed("stderr") + budget = OutputLimit
        BY <1>3
      <4> QED BY <4>1, <1>2, <2>1, <2>5, <3>3, DiscoveryAssumption
    <3> QED BY <3>2, <3>4, Zenon
  <2> QED BY <1>3, <2>1, <2>4, <2>6, SMTT(30)
<1> QED BY <1>6, <1>7, Zenon

\* A write adds to a pipe and to its history alike.
LEMMA WriteStep ==
    ASSUME IInv, NEW p \in Pipe, NEW b \in Byte, Writes(p, b)
    PROVE  IInv'
<1> USE DEF IInv, TypeOK, NewInv, BudgetIsShared, NoChildLeft, Consumed, Pipe
<1>1. /\ content' = [content EXCEPT ![p] = Append(@, b)]
      /\ written' = [written EXCEPT ![p] = Append(@, b)]
      /\ phase \in {"join", "kill"}
      /\ UNCHANGED <<phase, child, success, killed, held, reader, budget, output, expired,
                     outcome, path>>
  BY DEF Writes
<1>2. /\ Append(content[p], b) \in Seq(Byte) /\ Append(written[p], b) \in Seq(Byte)
      /\ Len(Append(content[p], b)) = Len(content[p]) + 1
      /\ Len(Append(written[p], b)) = Len(written[p]) + 1
  OBVIOUS
<1>3. content' \in [Pipe -> Seq(Byte)] /\ written' \in [Pipe -> Seq(Byte)]
  BY <1>1, <1>2
<1>4. Consumed("stdout")' = Consumed("stdout") /\ Consumed("stderr")' = Consumed("stderr")
  <2>1. /\ Len(content'[p]) = Len(content[p]) + 1
        /\ Len(written'[p]) = Len(written[p]) + 1
        /\ \A q \in Pipe \ {p} : content'[q] = content[q] /\ written'[q] = written[q]
    BY <1>1, <1>2
  <2>2. \A q \in Pipe : Len(written[q]) \in Nat /\ Len(content[q]) \in Nat
    OBVIOUS
  <2>3. CASE p = "stdout"
    <3>1. content'["stderr"] = content["stderr"] /\ written'["stderr"] = written["stderr"]
      BY <2>1, <2>3
    <3>2. /\ Len(content'["stdout"]) = Len(content["stdout"]) + 1
          /\ Len(written'["stdout"]) = Len(written["stdout"]) + 1
      BY <2>1, <2>3
    <3>3. Len(content["stdout"]) \in Nat /\ Len(written["stdout"]) \in Nat
      BY <2>2
    <3> HIDE DEF IInv, TypeOK
    <3>4. Consumed("stdout")' = Consumed("stdout")
      BY <3>2, <3>3
    <3>5. Consumed("stderr")' = Consumed("stderr")
      BY <3>1
    <3> QED BY <3>4, <3>5, Zenon
  <2>4. CASE p = "stderr"
    <3>1. content'["stdout"] = content["stdout"] /\ written'["stdout"] = written["stdout"]
      BY <2>1, <2>4
    <3>2. /\ Len(content'["stderr"]) = Len(content["stderr"]) + 1
          /\ Len(written'["stderr"]) = Len(written["stderr"]) + 1
      BY <2>1, <2>4
    <3>3. Len(content["stderr"]) \in Nat /\ Len(written["stderr"]) \in Nat
      BY <2>2
    <3> HIDE DEF IInv, TypeOK
    <3>4. Consumed("stderr")' = Consumed("stderr")
      BY <3>2, <3>3
    <3>5. Consumed("stdout")' = Consumed("stdout")
      BY <3>1
    <3> QED BY <3>4, <3>5, Zenon
  <2> QED BY <2>3, <2>4
<1> QED BY <1>1, <1>3, <1>4, Zenon

\* Every step keeps IInv.
LEMMA InvStep == IInv /\ [Next]_vars => IInv'
<1> SUFFICES ASSUME IInv, [Next]_vars PROVE IInv'
  OBVIOUS
<1> USE DiscoveryAssumption
    DEF IInv, TypeOK, NewInv, BudgetIsShared, NoChildLeft, Consumed, Errors
<1>1. CASE Spawn
  <2>1. TypeOK'
    BY <1>1, Zenon DEF Spawn, Pipe
  <2>2. Consumed("stdout")' = 0 /\ Consumed("stderr")' = 0
    BY <1>1 DEF Spawn
  <2>3. BudgetIsShared'
    <3>1. Len(output') <= OutputLimit - budget'
      BY <1>1 DEF Spawn
    <3>2. phase' = "join" => budget' = OutputLimit
      BY <1>1 DEF Spawn
    <3> HIDE DEF Consumed
    <3> QED BY <2>2, <3>1, <3>2
  <2> QED BY <1>1, <2>1, <2>3, Zenon DEF Spawn
<1>2. CASE JoinFails
  BY <1>2 DEF JoinFails, Fails
<1>3. CASE WaitReturns
  BY <1>3, Zenon DEF WaitReturns
<1>4. CASE JoinEnds
  <2>1. path' \in Seq(Byte)
    BY <1>4, PathType DEF JoinEnds
  <2> QED BY <1>4, <2>1, Zenon DEF JoinEnds, Joined, Fails
<1>5. CASE Timeout
  BY <1>5 DEF Timeout, Fails
<1>6. CASE KillEnds
  BY <1>6 DEF KillEnds
<1>7. CASE DropResolve
  BY <1>7 DEF DropResolve
<1>8. CASE Expire
  BY <1>8, Zenon DEF Expire, processVars
<1>9. CASE Exits
  BY <1>9, Zenon DEF Exits
<1>10. CASE ReapsOrphan
  BY <1>10 DEF ReapsOrphan
<1>11. ASSUME NEW p \in Pipe, ReadEof(p) PROVE IInv'
  BY <1>11, Zenon DEF ReadEof, processVars
<1>12. ASSUME NEW p \in Pipe, Releases(p) PROVE IInv'
  BY <1>12, ZenonT(60) DEF Releases
<1>13. CASE UNCHANGED vars
  BY <1>13, ZenonT(60) DEF vars, processVars
<1>14. ASSUME NEW p \in Pipe, NEW b \in IF p = "stdout" THEN Byte ELSE {"x"}, Writes(p, b)
       PROVE  IInv'
  <2>1. b \in Byte
    BY DEF Byte
  <2> QED BY <1>14, <2>1, WriteStep, Zenon
<1> HIDE DEF IInv
<1> QED
  BY <1>1, <1>2, <1>3, <1>4, <1>5, <1>6, <1>7, <1>8, <1>9, <1>10, <1>11, <1>12, <1>13,
     <1>14, ReadStep
  DEF Next

\* IInv is an invariant.
THEOREM Invariance == Spec => []IInv
BY InvInit, InvStep, PTL DEF Spec

(***************************************************************************)
(* The two readers of the child's output together stay within OUTPUT_LIMIT,*)
(* however their reads interleave: fetch_update charges every read.        *)
(***************************************************************************)
THEOREM Budget == Spec => []BudgetIsShared
<1>1. IInv => BudgetIsShared
  BY DEF IInv
<1> QED BY <1>1, Invariance, PTL

(***************************************************************************)
(* resolve never returns with its child running or unreaped, on any path.  *)
(***************************************************************************)
THEOREM ChildIsReaped == Spec => []NoChildLeft
<1>1. IInv => NoChildLeft
  BY DEF IInv
<1> QED BY <1>1, Invariance, PTL
-----------------------------------------------------------------------------
(* The path *)

\* Moving the front of a pipe to the collected output loses nothing.
LEMMA MovesFront ==
    ASSUME NEW o \in Seq(Byte), NEW s \in Seq(Byte), NEW n \in Nat, n <= Len(s)
    PROVE  (o \o SubSeq(s, 1, n)) \o SubSeq(s, n + 1, Len(s)) = o \o s
<1>1. SubSeq(s, 1, n) \in Seq(Byte) /\ SubSeq(s, n + 1, Len(s)) \in Seq(Byte)
  BY TakesFront
<1>2. SubSeq(s, 1, n) \o SubSeq(s, n + 1, Len(s)) = SubSeq(s, 1, Len(s))
  <2>1. 1 \in 1..(Len(s) + 1) /\ n \in (1 - 1)..Len(s) /\ Len(s) \in n..Len(s)
    OBVIOUS
  <2> QED BY <2>1, ConcatAdjacentSubSeq, Zenon
<1>3. SubSeq(s, 1, Len(s)) = s
  OBVIOUS
<1>4. ASSUME NEW a \in Seq(Byte), NEW c \in Seq(Byte), a \o c = s
      PROVE  (o \o a) \o c = o \o s
  <2>1. (o \o a) \o c = o \o (a \o c)
    BY ConcatAssociative, SMTT(30)
  <2> QED BY <2>1, <1>4
<1> QED BY <1>1, <1>2, <1>3, <1>4, Zenon

\* A byte written to a pipe comes after all that is in it.
LEMMA AppendsLast ==
    ASSUME NEW o \in Seq(Byte), NEW s \in Seq(Byte), NEW b \in Byte
    PROVE  Append(o \o s, b) = o \o Append(s, b)
OBVIOUS

\* output_path cuts the LF off and nothing else.
LEMMA PathWithLF ==
    ASSUME NEW bytes \in Seq(Byte), NEW p \in OutputPath(bytes)
    PROVE  Append(p, "LF") = bytes
<1>1. /\ Len(bytes) > 1 /\ bytes[Len(bytes)] = "LF"
      /\ p = SubSeq(bytes, 1, Len(bytes) - 1)
  BY DEF OutputPath
<1> QED BY <1>1 DEF Byte

(***************************************************************************)
(* What the stdout reader has collected and what is still in the pipe are  *)
(* together all that was written, until a failure abandons the join; a     *)
(* reader that is done has seen the end of a pipe nobody can write to.     *)
(***************************************************************************)
WholeInv ==
    /\ phase \in {"new", "join"} => written["stdout"] = output \o content["stdout"]
    /\ phase = "new" => \A p \in Pipe : reader[p] = "reading"
    /\ reader["stdout"] = "done" => content["stdout"] = <<>> /\ "stdout" \notin held
    /\ outcome = "Ok" => phase = "returned"
    /\ PathIsWhole

\* Nothing has been printed before the child is spawned.
LEMMA WholeInit == Init => WholeInv
BY DEF Init, WholeInv, PathIsWhole, Pipe

\* Every step keeps it: reads move bytes from pipe to output, and EOF means an empty pipe.
LEMMA WholeStep == IInv /\ WholeInv /\ [Next]_vars => WholeInv'
<1> SUFFICES ASSUME IInv, WholeInv, [Next]_vars PROVE WholeInv'
  OBVIOUS
<1>type. TypeOK /\ NoChildLeft
  BY DEF IInv
<1>1. CASE Spawn
  BY <1>1, <1>type DEF Spawn, WholeInv, PathIsWhole, Pipe
<1>2. CASE JoinFails
  BY <1>2 DEF JoinFails, Fails, WholeInv, PathIsWhole
<1>3. CASE WaitReturns
  BY <1>3 DEF WaitReturns, WholeInv, PathIsWhole
<1>4. CASE JoinEnds
  <2>1. CASE ~success
    BY <1>4, <2>1 DEF JoinEnds, Fails, WholeInv, PathIsWhole
  <2>2. CASE success
    <3>1. reader["stdout"] = "done" /\ phase = "join"
      BY <1>4 DEF JoinEnds, Joined, Pipe
    <3>2. output \in Seq(Byte) /\ written["stdout"] = output \o <<>>
      BY <3>1, <1>type, Zenon DEF WholeInv, TypeOK
    <3>3. written["stdout"] = output
      BY <3>2
    <3>4. outcome' = "Ok" => path' \in OutputPath(output)
      BY <1>4, <2>2 DEF JoinEnds, WholeInv
    <3>5. outcome' = "Ok" => Append(path', "LF") = written["stdout"]
      BY <3>2, <3>3, <3>4, PathWithLF
    <3> QED BY <1>4, <2>2, <3>5 DEF JoinEnds, WholeInv, PathIsWhole
  <2> QED BY <2>1, <2>2
<1>5. CASE Timeout
  BY <1>5 DEF Timeout, Fails, WholeInv, PathIsWhole
<1>6. CASE KillEnds
  BY <1>6 DEF KillEnds, WholeInv, PathIsWhole
<1>7. CASE DropResolve
  BY <1>7 DEF DropResolve, WholeInv, PathIsWhole
<1>8. CASE Expire
  BY <1>8 DEF Expire, processVars, WholeInv, PathIsWhole
<1>9. CASE Exits
  BY <1>9, <1>type DEF Exits, NoChildLeft, WholeInv, PathIsWhole
<1>10. CASE ReapsOrphan
  BY <1>10 DEF ReapsOrphan, WholeInv, PathIsWhole
<1>11. ASSUME NEW p \in Pipe, ReadEof(p) PROVE WholeInv'
  BY <1>11, <1>type DEF ReadEof, processVars, WholeInv, PathIsWhole, TypeOK
<1>12. ASSUME NEW p \in Pipe, Releases(p) PROVE WholeInv'
  BY <1>12 DEF Releases, WholeInv, PathIsWhole
<1>13. CASE UNCHANGED vars
  BY <1>13 DEF vars, processVars, WholeInv, PathIsWhole
<1>14. ASSUME NEW p \in Pipe, NEW b \in IF p = "stdout" THEN Byte ELSE {"x"}, Writes(p, b)
       PROVE  WholeInv'
  <2>1. /\ p \in held /\ phase \in {"join", "kill"}
        /\ content' = [content EXCEPT ![p] = Append(@, b)]
        /\ written' = [written EXCEPT ![p] = Append(@, b)]
        /\ UNCHANGED <<phase, success, held, reader, output, outcome, path>>
    BY <1>14 DEF Writes
  <2>2. CASE p = "stdout"
    <3>1. /\ content["stdout"] \in Seq(Byte) /\ output \in Seq(Byte) /\ b \in Byte
          /\ "stdout" \in DOMAIN content /\ "stdout" \in DOMAIN written
      BY <2>2, <1>type DEF TypeOK, Pipe
    <3>2. /\ content'["stdout"] = Append(content["stdout"], b)
          /\ written'["stdout"] = Append(written["stdout"], b)
      BY <2>1, <2>2, <3>1
    <3>3. phase = "join" => written'["stdout"] = output \o content'["stdout"]
      BY <3>1, <3>2, AppendsLast, Zenon DEF WholeInv
    <3> QED BY <2>1, <2>2, <3>3, Zenon DEF WholeInv, PathIsWhole
  <2>3. CASE p # "stdout"
    <3>1. /\ content'["stdout"] = content["stdout"]
          /\ written'["stdout"] = written["stdout"]
      BY <2>1, <2>3, <1>type DEF TypeOK, Pipe
    <3> QED BY <2>1, <3>1, Zenon DEF WholeInv, PathIsWhole
  <2> QED BY <2>2, <2>3
<1>15. ASSUME NEW p \in Pipe, Read(p) PROVE WholeInv'
  <2>1. PICK n \in 1..Scratch :
         /\ n <= Len(content[p])
         /\ content' = [content EXCEPT ![p] = SubSeq(@, n + 1, Len(@))]
         /\ \/ phase' = "kill" /\ outcome' = "OutputLimit"
            \/ /\ output' = IF p = "stdout" THEN output \o SubSeq(content[p], 1, n) ELSE output
               /\ UNCHANGED <<phase, outcome>>
    BY <1>15, Zenon DEF Read, Fails
  <2>2. /\ phase = "join" /\ reader[p] = "reading"
        /\ UNCHANGED <<success, held, written, reader, path>>
    BY <1>15 DEF Read
  <2>3. CASE p = "stdout"
    <3>1. /\ content["stdout"] \in Seq(Byte) /\ output \in Seq(Byte) /\ n \in Nat
          /\ "stdout" \in DOMAIN content
      BY <1>type, DiscoveryAssumption DEF TypeOK, Pipe
    <3>2. content'["stdout"] = SubSeq(content["stdout"], n + 1, Len(content["stdout"]))
      BY <2>1, <2>3, <3>1
    <3>3. (output \o SubSeq(content["stdout"], 1, n)) \o content'["stdout"]
             = output \o content["stdout"]
      BY <2>1, <2>3, <3>1, <3>2, MovesFront, Zenon
    <3>4. phase' = "join" => output' = output \o SubSeq(content["stdout"], 1, n)
      BY <2>1, <2>3
    <3>5. written'["stdout"] = output \o content["stdout"]
      BY <2>2 DEF WholeInv
    <3>6. phase' = "join" => written'["stdout"] = output' \o content'["stdout"]
      BY <3>3, <3>4, <3>5, Zenon
    <3> QED BY <2>1, <2>2, <2>3, <3>6, SMTT(30) DEF WholeInv, PathIsWhole
  <2>4. CASE p # "stdout"
    <3>1. content'["stdout"] = content["stdout"]
      BY <2>1, <2>4, <1>type DEF TypeOK, Pipe
    <3> QED BY <2>1, <2>2, <2>4, <3>1, Zenon DEF WholeInv, PathIsWhole
  <2> QED BY <2>3, <2>4
<1> QED
  BY <1>1, <1>2, <1>3, <1>4, <1>5, <1>6, <1>7, <1>8, <1>9, <1>10, <1>11, <1>12, <1>13,
     <1>14, <1>15
  DEF Next

(***************************************************************************)
(* The path resolve returns is all that a successful process printed on its*)
(* stdout, without the LF: however reads and writes interleave, no path is *)
(* made of part of the output.                                             *)
(***************************************************************************)
THEOREM WholePath == Spec => []PathIsWhole
<1>1. WholeInv => PathIsWhole
  BY DEF WholeInv
<1> QED BY <1>1, Invariance, WholeInit, WholeStep, PTL DEF Spec

-----------------------------------------------------------------------------
(* From the output to a stream *)

\* What the configuration tool prints, where a call has no stream yet, its errors.
OutputByte == {"/", "x", "cr", "lf", "nul", "?"}
Unopened == {"output", "read", "resolved", "direct", "inner", "dial", "pause"}
ConnectErrors ==
    {"InvalidOutput", "UnsupportedFormat", "Io", "Limit", "Timeout", "InvalidOptions",
     "InvalidEndpoint", "Cancelled"}

\* The types of the variables that the arguments need.
ConnectTypeOK ==
    /\ windows \in BOOLEAN /\ printed \in Seq(OutputByte) /\ file \in Seq(FileByte)
    /\ used \in Nat /\ nonce \in Seq(FileByte) /\ sent \in Seq(FileByte)
    /\ stage \in Unopened \cup {"nonce", "flush", "done"}
    /\ returned \in ConnectErrors \cup {"none", "Ok"} /\ stream \in {"none", "open", "closed"}
    /\ now \in Nat /\ start \in Nat /\ timeout \in Nat /\ outer \in Nat /\ deadline \in Nat

\* How far the call has come decides what it has read, opened and written.
Progress ==
    /\ used <= Len(file) /\ used <= Capacity
    /\ stage = "output" => used = 0
    /\ stage = "read" => windows
    /\ stage = "direct" => nonce = <<>>
    /\ stage = "done" <=> returned # "none"
    /\ stage \in Unopened => stream = "none" /\ sent = <<>>
    /\ stage \in {"nonce", "flush"} => stream = "open"
    /\ stage = "flush" => sent = nonce

\* The deadline that covers the call: connect's own one is enough without a nonce.
Deadline ==
    stage \in Connecting =>
        /\ now <= start + timeout
        /\ \/ outer = start + timeout
           \/ nonce = <<>> /\ deadline = start + timeout /\ stage \in {"dial", "pause"}

\* The inductive invariant: what each point of the call has behind it.
ConnectInv ==
    ConnectTypeOK /\ Progress /\ Deadline /\ ResolvedIsExact /\ StreamCarriesNonce

-----------------------------------------------------------------------------
\* The order of the natural numbers as a relation.
Less == {ss \in Nat \X Nat : ss[1] < ss[2]}

\* It is well-founded.
LEMMA LessIsWellFounded == IsWellFoundedOn(Less, Nat)
BY NatLessThanWellFounded, Zenon DEF OpToRel, Less

\* A set of natural numbers that is not empty has a least element,
LEMMA LeastElement ==
    ASSUME NEW T, T \subseteq Nat, T # {}
    PROVE  \E m \in T : \A k \in T : m <= k
<1>1. PICK m \in T : \A k \in T : ~(<<k, m>> \in Less)
  BY LessIsWellFounded, WFMin, Zenon
<1>2. \A k \in T : m <= k
  <2> TAKE k \in T
  <2>1. m \in Nat /\ k \in Nat
    BY <1>1, Zenon
  <2>2. ~(<<k, m>> \in Less)
    BY <1>1, Zenon
  <2>3. ~(k < m)
    BY <2>1, <2>2, Zenon DEF Less
  <2> QED BY <2>1, <2>3
<1> QED BY <1>1, <1>2, Zenon

\* which is the one that Min chooses.
LEMMA MinIsLeast ==
    ASSUME NEW T, T \subseteq Nat, T # {}
    PROVE  Min(T) \in T /\ \A k \in T : Min(T) <= k
<1>1. \E m \in T : \A k \in T : m <= k
  BY LeastElement, Zenon
<1> QED BY <1>1, Zenon DEF Min

\* What position finds (discovery.rs:269-270) is the first LF of the file, if any.
LEMMA SplitIsFirst ==
    ASSUME NEW S, NEW s \in Seq(S)
    PROVE  /\ Split(s) \in 0..Len(s)
           /\ Split(s) # 0 => s[Split(s)] = "lf"
           /\ \A k \in 1..Len(s) :
                 s[k] = "lf" /\ (\A i \in 1..(k - 1) : s[i] # "lf") => Split(s) = k
<1> DEFINE T == {i \in 1..Len(s) : s[i] \in {"lf"}}
<1>1. Split(s) = IF T # {} THEN Min(T) ELSE 0
  BY Zenon DEF Split, position
<1>2. T \subseteq Nat /\ Len(s) \in Nat
  OBVIOUS
<1>3. CASE T = {}
  <2>1. \A k \in 1..Len(s) : s[k] # "lf"
    BY <1>3, Zenon
  <2>2. Split(s) = 0
    BY <1>1, <1>3, Zenon
  <2> QED BY <2>1, <2>2, <1>2
<1>4. CASE T # {}
  <2>1. Split(s) \in T /\ \A k \in T : Split(s) <= k
    BY <1>1, <1>2, <1>4, MinIsLeast, Zenon
  <2>2. Split(s) \in 1..Len(s) /\ s[Split(s)] = "lf"
    BY <2>1, Zenon
  <2>3. ASSUME NEW k \in 1..Len(s), s[k] = "lf", \A i \in 1..(k - 1) : s[i] # "lf"
        PROVE  Split(s) = k
    <3>1. Split(s) <= k
      BY <2>1, <2>3, Zenon
    <3>2. Split(s) \notin 1..(k - 1)
      BY <2>2, <2>3, Zenon
    <3> QED BY <3>1, <3>2, <2>2, <1>2
  <2>4. Split(s) \in 0..Len(s)
    BY <2>2, <1>2
  <2> QED BY <2>2, <2>3, <2>4, Zenon
<1> QED BY <1>3, <1>4, Zenon

\* The bounded sequences that the instances enumerate are sequences.
LEMMA BoundedIsSeq ==
    ASSUME NEW S, NEW n \in Nat, NEW s \in SeqUpTo(S, n)
    PROVE  s \in Seq(S)
<1>1. PICK m \in 0..n : s \in [1..m -> S]
  BY Zenon DEF SeqUpTo
<1> QED BY <1>1

\* A prefix agrees with the whole at every position,
LEMMA PrefixElements ==
    ASSUME NEW S, NEW s \in Seq(S), NEW t \in Seq(S), starts_with(t, s), NEW i \in 1..Len(s)
    PROVE  s[i] = t[i]
<1>1. Len(s) \in Nat /\ Len(t) \in Nat /\ Len(s) <= Len(t)
  BY DEF starts_with
<1>2. SubSeq(t, 1, Len(s))[i] = t[i]
  BY <1>1
<1> QED BY <1>2, Zenon DEF starts_with

\* and what agrees at every position is a prefix.
LEMMA ElementsPrefix ==
    ASSUME NEW S, NEW s \in Seq(S), NEW t \in Seq(S), Len(s) <= Len(t),
           \A i \in 1..Len(s) : s[i] = t[i]
    PROVE  starts_with(t, s)
<1>1. Len(s) \in Nat /\ Len(t) \in Nat
  OBVIOUS
<1> DEFINE head == SubSeq(t, 1, Len(s))
<1>2. head \in Seq(S) /\ Len(head) = Len(s) /\ \A i \in 1..Len(s) : head[i] = t[i]
  BY <1>1
<1>3. head = s
  BY <1>2, SeqEqual, Zenon
<1> QED BY <1>3, Zenon DEF starts_with

\* The last byte of an output that ends with it.
LEMMA SuffixLast ==
    ASSUME NEW S, NEW s \in Seq(S), NEW b \in S, ends_with(s, <<b>>)
    PROVE  Len(s) >= 1 /\ s[Len(s)] = b
<1> DEFINE e == <<b>>
           tail == SubSeq(s, Len(s), Len(s))
<1>1. Len(e) = 1 /\ e[1] = b
  OBVIOUS
<1>2. Len(e) <= Len(s) /\ SubSeq(s, Len(s) - Len(e) + 1, Len(s)) = e
  BY Zenon DEF ends_with
<1> HIDE DEF e
<1>3. Len(s) >= 1 /\ (Len(s) - Len(e)) + 1 = Len(s)
  BY <1>1, <1>2
<1>4. tail[1] = s[Len(s)]
  BY <1>3
<1> QED BY <1>1, <1>2, <1>3, <1>4, Zenon

\* The end of the file is a suffix.
LEMMA ElementsSuffix ==
    ASSUME NEW S, NEW s \in Seq(S), NEW t \in Seq(S), Len(s) <= Len(t),
           \A i \in 1..Len(s) : s[i] = t[Len(t) - Len(s) + i]
    PROVE  ends_with(t, s)
<1>1. Len(s) \in Nat /\ Len(t) \in Nat
  OBVIOUS
<1> DEFINE tail == SubSeq(t, Len(t) - Len(s) + 1, Len(t))
<1>2. /\ tail \in Seq(S) /\ Len(tail) = Len(s)
      /\ \A i \in 1..Len(s) : tail[i] = t[Len(t) - Len(s) + i]
  BY <1>1
<1>3. tail = s
  BY <1>2, SeqEqual, Zenon
<1> QED BY <1>3, Zenon DEF ends_with

-----------------------------------------------------------------------------
(* parse_native_socket_file accepts the files of the reference form, no others. *)

\* A file that starts with a digit has not the header of a format that is refused.
LEMMA NoHeader ==
    ASSUME NEW f \in Seq(FileByte), Len(f) >= 1, f[1] \in DOMAIN Values
    PROVE  ~starts_with(f, <<"!">>)
<1> DEFINE header == <<"!">>
<1>1. header \in Seq(FileByte) /\ Len(header) = 1 /\ header[1] = "!" /\ 1 \in 1..1
  BY DEF FileByte
<1>2. f[1] # "!"
  BY Zenon DEF Values
<1> HIDE DEF header
<1>3. ~starts_with(f, header)
  <2>1. 1 \in 1..Len(header)
    BY <1>1, Zenon
  <2> QED BY <2>1, <1>1, <1>2, PrefixElements, Zenon
<1> QED BY <1>3, Zenon DEF header

\* The first k bytes are digits, as a set and one by one.
LEMMA DigitsBefore ==
    ASSUME NEW f \in Seq(FileByte), NEW k \in Nat, k <= Len(f)
    PROVE  Range(SubSeq(f, 1, k)) \subseteq DOMAIN Values
           <=> \A i \in 1..k : f[i] \in DOMAIN Values
<1>1. /\ DOMAIN SubSeq(f, 1, k) = 1..k
      /\ \A i \in 1..k : SubSeq(f, 1, k)[i] = f[i]
  OBVIOUS
<1> QED BY <1>1, Zenon DEF Range

\* parse_native_socket_file (discovery.rs:262-293) refuses no well-formed file,
LEMMA WellFormedParses ==
    ASSUME NEW f \in Seq(FileByte), WellFormed(f)
    PROVE  ParseError(f) = "none" /\ Len(f) < Capacity
<1>1. PICK k \in 1..MaxDigits :
         /\ Len(f) = k + 1 + NonceLen /\ f[k + 1] = "lf"
         /\ \A i \in 1..k : f[i] \in DOMAIN Values
         /\ Port(SubSeq(f, 1, k)) \in 1..MaxPort
  BY Zenon DEF WellFormed
<1>2. k \in Nat /\ k >= 1 /\ k <= MaxDigits /\ MaxDigits \in Nat /\ NonceLen \in Nat
  BY ConnectAssumption
<1>3. /\ k + 1 \in 1..Len(f) /\ k <= Len(f) /\ (k + 1) - 1 = k /\ Len(f) >= 1 /\ 1 \in 1..k
      /\ Len(f) < Capacity /\ Len(f) <= MaxDigits + 1 + NonceLen /\ Len(f) - (k + 1) = NonceLen
      /\ k + 1 >= 2 /\ k + 1 <= MaxDigits + 1
  BY <1>1, <1>2 DEF Capacity
<1>4. \A i \in 1..((k + 1) - 1) : f[i] # "lf"
  BY <1>1, <1>3, Zenon DEF Values
<1>5. Split(f) = k + 1
  BY <1>1, <1>3, <1>4, SplitIsFirst, Zenon
<1>6. ~starts_with(f, <<"!">>)
  BY <1>1, <1>3, NoHeader, Zenon
<1>7. Range(SubSeq(f, 1, k)) \subseteq DOMAIN Values
  BY <1>1, <1>2, <1>3, DigitsBefore, Zenon
<1> DEFINE split == Split(f)
<1>8. /\ ~(Len(f) > MaxDigits + 1 + NonceLen) /\ ~(split < 2) /\ ~(split > MaxDigits + 1)
      /\ Len(f) - split = NonceLen
  BY <1>2, <1>3, <1>5
<1>9. /\ Range(SubSeq(f, 1, split - 1)) \subseteq DOMAIN Values
      /\ Port(SubSeq(f, 1, split - 1)) \in 1..MaxPort
  BY <1>1, <1>3, <1>5, <1>7, Zenon
<1>10. ParseError(f) = "none"
  BY <1>6, <1>8, <1>9, Zenon DEF ParseError
<1> QED BY <1>3, <1>10, Zenon

\* and accepts no other.
LEMMA ParsedIsWellFormed ==
    ASSUME NEW f \in Seq(FileByte), ParseError(f) = "none"
    PROVE  /\ WellFormed(f) /\ Len(f) < Capacity /\ Split(f) \in 1..Len(f)
           /\ Len(f) - Split(f) = NonceLen
           /\ Port(SubSeq(f, 1, Split(f) - 1)) \in 1..MaxPort
<1> DEFINE split == Split(f)
           k == split - 1
<1>1. /\ ~(Len(f) > MaxDigits + 1 + NonceLen) /\ ~(split < 2) /\ ~(split > MaxDigits + 1)
      /\ Len(f) - split = NonceLen
      /\ Range(SubSeq(f, 1, split - 1)) \subseteq DOMAIN Values
      /\ Port(SubSeq(f, 1, split - 1)) \in 1..MaxPort
  BY Zenon DEF ParseError
<1>2. split \in 0..Len(f) /\ (split # 0 => f[split] = "lf")
  BY SplitIsFirst, Zenon
<1>3. MaxDigits \in Nat /\ NonceLen \in Nat /\ Len(f) \in Nat
  BY ConnectAssumption
<1>4. /\ split # 0 /\ split \in 1..Len(f) /\ k \in 1..MaxDigits /\ k \in Nat /\ k <= Len(f)
      /\ Len(f) = k + 1 + NonceLen /\ k + 1 = split /\ Len(f) < Capacity
  BY <1>1, <1>2, <1>3 DEF Capacity
<1> HIDE DEF split
<1>5. \A i \in 1..k : f[i] \in DOMAIN Values
  BY <1>1, <1>4, DigitsBefore, Zenon
<1>6. WellFormed(f)
  BY <1>1, <1>2, <1>4, <1>5, Zenon DEF WellFormed
<1> QED BY <1>1, <1>4, <1>6, Zenon DEF split

-----------------------------------------------------------------------------
\* ConnectInv holds initially.
LEMMA ConnectInitInv ==
    ASSUME ConnectInit
    PROVE  ConnectInv
<1>1. /\ windows \in BOOLEAN /\ stage \in {"output", "direct"}
      /\ used = 0 /\ nonce = <<>> /\ returned = "none"
      /\ now = 0 /\ start = 0 /\ timeout = 0
      /\ outer = Never /\ deadline = Never
      /\ stream = "none" /\ sent = <<>>
  BY Zenon DEF ConnectInit
<1>2. /\ Never \in Nat /\ Capacity \in Nat /\ MaxDigits \in Nat /\ NonceLen \in Nat
  BY ConnectAssumption DEF Never, Capacity
<1>3. printed \in Seq(OutputByte) /\ file \in Seq(FileByte)
  <2>1. ValidFile \in Seq(FileByte) /\ <<>> \in Seq(FileByte) /\ <<>> \in Seq(OutputByte)
    BY <1>2 DEF ValidFile, FileByte, Values
  <2>2. Path \o <<"lf">> \in Seq(OutputByte)
    BY DEF Path, OutputByte
  <2>3. /\ \A s \in SeqUpTo(OutputByte, 4) : s \in Seq(OutputByte)
        /\ \A s \in SeqUpTo(FileByte, MaxDigits + NonceLen + 2) : s \in Seq(FileByte)
    BY <1>2, BoundedIsSeq
  <2> QED BY <2>1, <2>2, <2>3, Zenon DEF ConnectInit, OutputByte
<1>4. <<>> \in Seq(FileByte) /\ Len(file) \in Nat
  BY <1>3
<1>5. ConnectTypeOK
  BY <1>1, <1>2, <1>3, <1>4, Zenon DEF ConnectTypeOK, Unopened
<1>6. Progress /\ Deadline
  BY <1>1, <1>2, <1>4 DEF Progress, Deadline, Unopened, Connecting
<1>7. ResolvedIsExact
  BY <1>1, Zenon DEF ResolvedIsExact
<1>8. starts_with(nonce, sent)
  BY <1>1 DEF starts_with
<1>9. StreamCarriesNonce
  BY <1>1, <1>8, Zenon DEF StreamCarriesNonce
<1> QED BY <1>5, <1>6, <1>7, <1>9, Zenon DEF ConnectInv

\* Every way out of the call, ended by a result or by dropping the future.
LEMMA ReturnsInv ==
    ASSUME ConnectInv, stage # "done",
           NEW r \in ConnectErrors \cup {"Ok"}, ConnectReturns(r), UNCHANGED resolved,
           r = "Ok" => stage = "flush",
           r \in {"InvalidOutput", "UnsupportedFormat"} /\ used > 0 => ~WellFormed(file)
    PROVE  ConnectInv'
<1>1. /\ stage' = "done" /\ returned' = r
      /\ stream' = (IF r # "Ok" /\ stream = "open" THEN "closed" ELSE stream)
      /\ windows' = windows /\ printed' = printed /\ file' = file /\ now' = now
      /\ start' = start /\ timeout' = timeout /\ outer' = outer /\ deadline' = deadline
      /\ sent' = sent /\ used' = used /\ endpoint' = endpoint /\ nonce' = nonce
  BY Zenon DEF ConnectReturns, source, timers, resolved
<1>2. r # "none"
  BY Zenon DEF ConnectErrors
<1>3. ConnectTypeOK'
  <2>1. /\ windows' \in BOOLEAN /\ printed' \in Seq(OutputByte) /\ file' \in Seq(FileByte)
        /\ used' \in Nat /\ nonce' \in Seq(FileByte) /\ sent' \in Seq(FileByte)
        /\ now' \in Nat /\ start' \in Nat /\ timeout' \in Nat /\ outer' \in Nat /\ deadline' \in Nat
    BY <1>1, Zenon DEF ConnectInv, ConnectTypeOK
  <2>2. stream' \in {"none", "open", "closed"}
    BY <1>1, Zenon DEF ConnectInv, ConnectTypeOK
  <2> QED BY <1>1, <2>1, <2>2, Zenon DEF ConnectTypeOK
<1>4. Progress'
  <2>1. used' <= Len(file') /\ used' <= Capacity
    BY <1>1, Zenon DEF ConnectInv, Progress
  <2> QED BY <1>1, <1>2, <2>1, Zenon DEF Progress, Unopened
<1>5. Deadline'
  BY <1>1, Zenon DEF Deadline, Connecting
<1>6. ResolvedIsExact'
  BY <1>1, Zenon DEF ResolvedIsExact
<1>7. StreamCarriesNonce'
  <2>1. starts_with(nonce', sent')
    BY <1>1, Zenon DEF ConnectInv, StreamCarriesNonce
  <2>2. r = "Ok" => stream' = "open" /\ sent' = nonce'
    BY <1>1, Zenon DEF ConnectInv, Progress
  <2>3. r # "Ok" => stream' # "open"
    BY <1>1, Zenon
  <2> QED BY <1>1, <2>1, <2>2, <2>3, Zenon DEF StreamCarriesNonce
<1> QED BY <1>3, <1>4, <1>5, <1>6, <1>7, Zenon DEF ConnectInv

\* A path that is accepted is the output up to the LF that ends it.
LEMMA UnixPathIsLine ==
    ASSUME NEW s \in Seq(OutputByte), ~windows, output_path(s) # <<>>
    PROVE  s = output_path(s) \o <<"lf">>
<1>1. ends_with(s, <<"lf">>)
  BY Zenon DEF output_path
<1>2. output_path(s) = SubSeq(s, 1, Len(s) - 1)
  BY <1>1, Zenon DEF output_path, Unended, front
<1> DEFINE lf == <<"lf">>
           n == Len(s) - 1
           p == SubSeq(s, 1, n)
<1>3. lf \in Seq(OutputByte) /\ Len(lf) = 1 /\ lf[1] = "lf" /\ "lf" \in OutputByte
  BY DEF OutputByte
<1>4. Len(s) >= 1 /\ s[Len(s)] = "lf"
  BY <1>1, <1>3, SuffixLast, Zenon
<1>5. n \in Nat /\ n + 1 = Len(s)
  BY <1>4
<1> HIDE DEF n, lf
<1>6. p \in Seq(OutputByte) /\ Len(p) = n /\ \A i \in 1..n : p[i] = s[i]
  BY <1>5
<1> HIDE DEF p
<1>7. /\ p \o lf \in Seq(OutputByte) /\ Len(p \o lf) = Len(s)
      /\ \A i \in 1..Len(s) : (p \o lf)[i] = s[i]
  <2>c. /\ p \o lf \in Seq(OutputByte) /\ Len(p \o lf) = Len(p) + Len(lf)
        /\ \A i \in 1..(Len(p) + Len(lf)) :
              (p \o lf)[i] = IF i <= Len(p) THEN p[i] ELSE lf[i - Len(p)]
    BY <1>3, <1>6, ConcatProperties, Zenon
  <2>d. \A i \in 1..(n + 1) : (p \o lf)[i] = IF i <= n THEN p[i] ELSE lf[i - n]
    BY <2>c, <1>3, <1>6, Zenon
  <2>1. p \o lf \in Seq(OutputByte) /\ Len(p \o lf) = n + 1
    BY <2>c, <1>3, <1>6, Zenon
  <2>2. ASSUME NEW i \in 1..(n + 1)
        PROVE  (p \o lf)[i] = s[i]
    <3>1. CASE i = n + 1
      <4>1. (p \o lf)[i] = lf[1]
        <5>1. i \in 1..(n + 1) /\ ~(i <= n) /\ i - n = 1
          BY <3>1, <1>5
        <5>2. (p \o lf)[i] = lf[i - n]
          BY <5>1, <2>d, Zenon
        <5> QED BY <5>1, <5>2, Zenon
      <4> QED BY <3>1, <4>1, <1>3, <1>4, <1>5, Zenon
    <3>2. CASE i # n + 1
      <4>1. i \in 1..n /\ i <= n
        BY <3>2, <1>5
      <4>2. (p \o lf)[i] = p[i]
        BY <4>1, <2>d, Zenon
      <4> QED BY <4>1, <4>2, <1>6, Zenon
    <3> QED BY <3>1, <3>2, Zenon
  <2> QED BY <2>1, <2>2, <1>5, Zenon
<1>8. p \o lf = s
  BY <1>7, SeqEqual, Zenon
<1> QED BY <1>2, <1>8, Zenon DEF p, lf, n

\* Taking the path from the output (discovery.rs:220-239) preserves ConnectInv.
LEMMA ResolvePathInv ==
    ASSUME ConnectInv, ResolvePath
    PROVE  ConnectInv'
<1>1. CASE ~IsPath(output_path(printed)) /\ ConnectReturns("InvalidOutput") /\ UNCHANGED resolved
  <2>1. stage # "done" /\ ~(used > 0)
    BY DEF ResolvePath, ConnectInv, Progress
  <2>2. "InvalidOutput" \in ConnectErrors \cup {"Ok"} /\ "InvalidOutput" # "Ok"
    BY Zenon DEF ConnectErrors
  <2> QED BY <1>1, <2>1, <2>2, ReturnsInv, Zenon
<1>2. CASE /\ IsPath(output_path(printed))
           /\ stage' = (IF windows THEN "read" ELSE "resolved")
           /\ endpoint' = [kind |-> "Unix", valid |-> TRUE]
           /\ UNCHANGED <<source, used, nonce, returned, now, timers, stream, sent>>
  <2>1. /\ windows' = windows /\ printed' = printed /\ file' = file /\ now' = now
        /\ start' = start /\ timeout' = timeout /\ outer' = outer /\ deadline' = deadline
        /\ sent' = sent /\ used' = used /\ nonce' = nonce /\ returned' = returned
        /\ stream' = stream
    BY <1>2, Zenon DEF source, timers
  <2>2. stage = "output" /\ output_path(printed) # <<>>
    BY <1>2, Zenon DEF ResolvePath, IsPath
  <2>3. ConnectTypeOK /\ Progress /\ ResolvedIsExact /\ StreamCarriesNonce
    BY Zenon DEF ConnectInv
  <2>4. /\ stage' \in {"read", "resolved"}
        /\ (stage' = "read" => windows) /\ (stage' = "resolved" => ~windows)
    BY <1>2, <2>3, Zenon DEF ConnectTypeOK
  <2>5. ConnectTypeOK'
    BY <2>1, <2>3, <2>4, Zenon DEF ConnectTypeOK, Unopened
  <2>6. Progress'
    BY <2>1, <2>2, <2>3, <2>4, Zenon DEF Progress, Unopened
  <2>7. Deadline'
    BY <2>4, Zenon DEF Deadline, Connecting
  <2>8. output_path(printed)' = output_path(printed)
    BY <2>1, Zenon DEF output_path, Unended
  <2>9. stage' = "resolved" => printed = output_path(printed) \o <<"lf">>
    BY <2>2, <2>3, <2>4, UnixPathIsLine, Zenon DEF ConnectTypeOK
  <2>10. returned' = "none"
    BY <2>1, <2>2, <2>3, Zenon DEF Progress
  <2>11. ResolvedIsExact'
    BY <2>1, <2>4, <2>8, <2>9, <2>10, Zenon DEF ResolvedIsExact
  <2>12. StreamCarriesNonce'
    BY <2>1, <2>3, Zenon DEF StreamCarriesNonce
  <2> QED BY <2>5, <2>6, <2>7, <2>11, <2>12, Zenon DEF ConnectInv
<1> QED BY <1>1, <1>2, Zenon DEF ResolvePath

\* So does every way to end: the flush, a failure, a deadline, the dropped future.
LEMMA FailuresInv ==
    ASSUME ConnectInv,
           \/ ReadFails \/ ResolveTimesOut \/ DialFails \/ Flush \/ WriteFails
           \/ DeadlineExpires \/ Cancel
    PROVE  ConnectInv'
<1>1. CASE ReadFails
  <2>1. PICK r \in {"Io", "Limit"} \cup (IF used = 0 THEN {"InvalidOutput"} ELSE {}) :
           ConnectReturns(r)
    BY <1>1, Zenon DEF ReadFails
  <2>2. /\ stage # "done" /\ UNCHANGED resolved /\ r \in ConnectErrors \cup {"Ok"} /\ r # "Ok"
        /\ r # "UnsupportedFormat" /\ (r = "InvalidOutput" => used = 0)
    BY <1>1, <2>1, Zenon DEF ReadFails, ConnectErrors
  <2>3. used = 0 => ~(used > 0)
    OBVIOUS
  <2> QED BY <2>1, <2>2, <2>3, ReturnsInv, Zenon
<1>2. CASE ResolveTimesOut \/ DeadlineExpires
  <2>1. /\ stage # "done" /\ ConnectReturns("Timeout") /\ UNCHANGED resolved
        /\ "Timeout" \in ConnectErrors \cup {"Ok"} /\ "Timeout" # "Ok"
        /\ "Timeout" \notin {"InvalidOutput", "UnsupportedFormat"}
    BY <1>2, Zenon DEF ResolveTimesOut, DeadlineExpires, Due, Connecting, ConnectErrors
  <2> QED BY <2>1, ReturnsInv, Zenon
<1>3. CASE DialFails
  <2> DEFINE r == IF endpoint.kind # "Unix" /\ ~endpoint.valid THEN "InvalidEndpoint" ELSE "Io"
  <2>1. /\ stage # "done" /\ ConnectReturns(r) /\ UNCHANGED resolved
    BY <1>3, Zenon DEF DialFails
  <2>2. /\ r \in ConnectErrors \cup {"Ok"} /\ r # "Ok"
        /\ r \notin {"InvalidOutput", "UnsupportedFormat"}
    BY Zenon DEF ConnectErrors
  <2> HIDE DEF r
  <2> QED BY <2>1, <2>2, ReturnsInv, Zenon
<1>4. CASE Flush
  <2>1. /\ stage # "done" /\ stage = "flush" /\ ConnectReturns("Ok") /\ UNCHANGED resolved
        /\ "Ok" \in ConnectErrors \cup {"Ok"} /\ "Ok" \notin {"InvalidOutput", "UnsupportedFormat"}
    BY <1>4, Zenon DEF Flush
  <2> QED BY <2>1, ReturnsInv, Zenon
<1>5. CASE WriteFails
  <2>1. /\ stage # "done" /\ ConnectReturns("Io") /\ UNCHANGED resolved
        /\ "Io" \in ConnectErrors \cup {"Ok"} /\ "Io" # "Ok"
        /\ "Io" \notin {"InvalidOutput", "UnsupportedFormat"}
    BY <1>5, Zenon DEF WriteFails, ConnectErrors
  <2> QED BY <2>1, ReturnsInv, Zenon
<1>6. CASE Cancel
  <2>1. /\ stage # "done" /\ ConnectReturns("Cancelled") /\ UNCHANGED resolved
        /\ "Cancelled" \in ConnectErrors \cup {"Ok"} /\ "Cancelled" # "Ok"
        /\ "Cancelled" \notin {"InvalidOutput", "UnsupportedFormat"}
    BY <1>6, Zenon DEF Cancel, ConnectErrors
  <2> QED BY <2>1, ReturnsInv, Zenon
<1> QED BY <1>1, <1>2, <1>3, <1>4, <1>5, <1>6, Zenon

\* So does a call that is refused for its timeout.
LEMMA RefusalInv ==
    ASSUME ConnectInv, stage # "done", NEW t, Refusal(t) # "none", ConnectReturns(Refusal(t)),
           UNCHANGED resolved
    PROVE  ConnectInv'
<1> DEFINE r == Refusal(t)
<1>1. r \in {"Timeout", "InvalidOptions"}
  BY Zenon DEF Refusal
<1> HIDE DEF r
<1>2. r \in ConnectErrors \cup {"Ok"} /\ r # "Ok" /\ r \notin {"InvalidOutput", "UnsupportedFormat"}
  BY <1>1, Zenon DEF ConnectErrors
<1>3. ConnectReturns(r)
  BY Zenon DEF r
<1> QED BY <1>2, <1>3, ReturnsInv, Zenon

\* Reading a piece of the native socket file preserves ConnectInv,
LEMMA ReadFileInv ==
    ASSUME ConnectInv, ReadFile
    PROVE  ConnectInv'
<1> DEFINE top == Min({Capacity, Len(file)})
<1>1. /\ stage = "read" /\ windows' = windows /\ printed' = printed /\ file' = file /\ now' = now
      /\ start' = start /\ timeout' = timeout /\ outer' = outer /\ deadline' = deadline
      /\ sent' = sent /\ endpoint' = endpoint /\ nonce' = nonce /\ returned' = returned
      /\ stream' = stream /\ stage' = stage
  BY Zenon DEF ReadFile, source, timers
<1>2. PICK n \in 1..(top - used) : used' = used + n
  BY Zenon DEF ReadFile
<1>3. /\ used \in Nat /\ Len(file) \in Nat /\ Capacity \in Nat
  BY ConnectAssumption DEF ConnectInv, ConnectTypeOK, Capacity
<1>4. top \in Nat /\ top <= Capacity /\ top <= Len(file)
  BY <1>3, MinIsLeast, Zenon
<1> HIDE DEF top
<1>5. used' \in Nat /\ used' <= Capacity /\ used' <= Len(file)
  BY <1>2, <1>3, <1>4
<1>6. ConnectTypeOK /\ Progress /\ ResolvedIsExact /\ StreamCarriesNonce
  BY Zenon DEF ConnectInv
<1>7. returned = "none"
  BY <1>1, <1>6, Zenon DEF Progress
<1>8. ConnectTypeOK'
  BY <1>1, <1>5, <1>6, Zenon DEF ConnectTypeOK
<1>9. Progress'
  BY <1>1, <1>5, <1>6, Zenon DEF Progress
<1>10. Deadline'
  BY <1>1, Zenon DEF Deadline, Connecting
<1>11. ResolvedIsExact'
  BY <1>1, <1>7, Zenon DEF ResolvedIsExact
<1>12. StreamCarriesNonce'
  BY <1>1, <1>6, Zenon DEF StreamCarriesNonce
<1> QED BY <1>8, <1>9, <1>10, <1>11, <1>12, Zenon DEF ConnectInv

\* and so does its end, where the whole file is parsed (discovery.rs:258).
LEMMA ReadEndsInv ==
    ASSUME ConnectInv, ReadEnds
    PROVE  ConnectInv'
<1> DEFINE bytes == SubSeq(file, 1, used)
           split == Split(bytes)
<1>1. stage = "read" /\ used = Min({Capacity, Len(file)})
  BY Zenon DEF ReadEnds
<1>2. ConnectTypeOK /\ Progress /\ StreamCarriesNonce
  BY Zenon DEF ConnectInv
<1>3. /\ file \in Seq(FileByte) /\ used \in Nat /\ Len(file) \in Nat /\ Capacity \in Nat
      /\ used <= Len(file)
  BY <1>2, ConnectAssumption DEF ConnectTypeOK, Progress, Capacity
<1>4. bytes \in Seq(FileByte) /\ Len(bytes) = used
  BY <1>3
<1>5. Len(file) < Capacity \/ used < Capacity => bytes = file /\ used = Len(file)
  <2>1. used \in {Capacity, Len(file)} /\ used <= Capacity /\ used <= Len(file)
    BY <1>1, <1>3, MinIsLeast, Zenon
  <2>2. Len(file) < Capacity \/ used < Capacity => used = Len(file)
    BY <2>1, <1>3
  <2>3. SubSeq(file, 1, Len(file)) = file
    BY <1>3
  <2> QED BY <2>2, <2>3, Zenon
<1>6. CASE ParseError(bytes) # "none" /\ ConnectReturns(ParseError(bytes)) /\ UNCHANGED resolved
  <2> DEFINE r == ParseError(bytes)
  <2>1. r \in {"UnsupportedFormat", "InvalidOutput"}
    BY <1>6, Zenon DEF ParseError
  <2>2. ~WellFormed(file)
    <3>1. SUFFICES ASSUME WellFormed(file)
                   PROVE  FALSE
      BY Zenon
    <3>2. ParseError(file) = "none" /\ Len(file) < Capacity
      BY <3>1, <1>3, WellFormedParses, Zenon
    <3> QED BY <3>2, <1>5, <1>6, Zenon
  <2> HIDE DEF r
  <2>3. r \in ConnectErrors \cup {"Ok"} /\ r # "Ok" /\ stage # "done"
    BY <2>1, <1>1, Zenon DEF ConnectErrors
  <2>4. ConnectReturns(r) /\ UNCHANGED resolved
    BY <1>6, Zenon DEF r
  <2> QED BY <2>2, <2>3, <2>4, ReturnsInv, Zenon
<1>7. CASE /\ ParseError(bytes) = "none"
           /\ endpoint' = TcpEndpoint(Port(SubSeq(bytes, 1, split - 1)))
           /\ nonce' = SubSeq(bytes, split + 1, used)
           /\ stage' = "resolved"
           /\ UNCHANGED <<source, used, returned, now, timers, stream, sent>>
  <2>1. /\ windows' = windows /\ printed' = printed /\ file' = file /\ now' = now
        /\ start' = start /\ timeout' = timeout /\ outer' = outer /\ deadline' = deadline
        /\ sent' = sent /\ used' = used /\ returned' = returned /\ stream' = stream
    BY <1>7, Zenon DEF source, timers
  <2>2. /\ WellFormed(bytes) /\ Len(bytes) < Capacity /\ split \in 1..Len(bytes)
        /\ Len(bytes) - split = NonceLen
        /\ Port(SubSeq(bytes, 1, split - 1)) \in 1..MaxPort
    BY <1>4, <1>7, ParsedIsWellFormed, Zenon
  <2>3. bytes = file /\ used = Len(file)
    BY <2>2, <1>4, <1>5, Zenon
  <2>4. WellFormed(file) /\ split \in 1..Len(file) /\ Len(file) - split = NonceLen
    BY <2>2, <2>3, Zenon
  <2>5. endpoint'.valid
    <3> DEFINE port == Port(SubSeq(bytes, 1, split - 1))
    <3>1. port \in 1..MaxPort /\ endpoint' = [kind |-> "Tcp", valid |-> port # 0]
      BY <1>7, <2>2, Zenon DEF TcpEndpoint
    <3> HIDE DEF port
    <3>2. port # 0
      BY <3>1
    <3> QED BY <3>1, <3>2, Zenon
  <2>6. nonce' = SubSeq(file, split + 1, Len(file))
    BY <1>7, <2>3, Zenon
  <2> HIDE DEF split
  <2>7. /\ nonce' \in Seq(FileByte) /\ Len(nonce') = NonceLen
        /\ \A i \in 1..NonceLen : nonce'[i] = file[split + i]
    BY <2>4, <2>6, <1>3
  <2>8. ends_with(file, nonce')
    <3>1. Len(nonce') <= Len(file) /\ Len(file) - Len(nonce') = split
      BY <2>4, <2>7, <1>3
    <3>2. \A i \in 1..Len(nonce') : nonce'[i] = file[Len(file) - Len(nonce') + i]
      BY <2>7, <3>1, Zenon
    <3> DEFINE n == nonce'
    <3>3. n \in Seq(FileByte) /\ Len(n) <= Len(file)
          /\ \A i \in 1..Len(n) : n[i] = file[Len(file) - Len(n) + i]
      BY <2>7, <3>1, <3>2, Zenon
    <3> HIDE DEF n
    <3>4. ends_with(file, n)
      BY <3>3, <1>3, ElementsSuffix, Zenon
    <3> QED BY <3>4, Zenon DEF n
  <2>9. returned = "none" /\ windows /\ sent = <<>> /\ stream = "none"
    BY <1>1, <1>2, Zenon DEF Progress, Unopened
  <2>10. ConnectTypeOK'
    BY <2>1, <2>7, <1>2, <1>7, Zenon DEF ConnectTypeOK, Unopened
  <2>11. Progress'
    BY <2>1, <2>9, <1>2, <1>7, Zenon DEF Progress, Unopened
  <2>12. Deadline'
    BY <1>7, Zenon DEF Deadline, Connecting
  <2>13. ResolvedIsExact'
    <3>1. returned' \notin {"InvalidOutput", "UnsupportedFormat"} /\ windows'
      BY <2>1, <2>9, Zenon
    <3>2. WellFormed(file') /\ ends_with(file', nonce')
      BY <2>1, <2>4, <2>8, Zenon
    <3> QED BY <3>1, <3>2, <2>5, <2>7, Zenon DEF ResolvedIsExact
  <2>14. starts_with(nonce', sent')
    <3>1. Len(<<>>) = 0 /\ SubSeq(<<>>, 1, 0) = <<>> /\ SubSeq(nonce', 1, 0) = <<>>
      BY <2>7
    <3>2. 0 <= Len(nonce')
      BY <2>7
    <3> QED BY <2>1, <2>9, <3>1, <3>2, Zenon DEF starts_with
  <2>15. StreamCarriesNonce'
    BY <2>1, <2>9, <2>14, Zenon DEF StreamCarriesNonce
  <2> QED BY <2>10, <2>11, <2>12, <2>13, <2>15, Zenon DEF ConnectInv
<1> QED BY <1>6, <1>7, Zenon DEF ReadEnds

\* Calling connect sets the deadline that covers it (discovery.rs:147), or refuses.
LEMMA CallInv ==
    ASSUME ConnectInv, Call
    PROVE  ConnectInv'
<1>1. PICK t \in Timeouts : \/ Refusal(t) = "none" /\ (CallResolved(t) \/ CallDirect(t))
                            \/ CallRefused(t)
  BY Zenon DEF Call
<1>2. CASE CallRefused(t)
  <2>1. stage # "done" /\ Refusal(t) # "none" /\ ConnectReturns(Refusal(t)) /\ UNCHANGED resolved
    BY <1>2, Zenon DEF CallRefused
  <2> QED BY <2>1, RefusalInv, Zenon
<1>3. CASE CallResolved(t) \/ CallDirect(t)
  <2>1. /\ windows' = windows /\ printed' = printed /\ file' = file /\ now' = now
        /\ sent' = sent /\ used' = used /\ nonce' = nonce /\ returned' = returned
        /\ stream' = stream
        /\ start' = now /\ timeout' = t
    BY <1>3, Zenon DEF CallResolved, CallDirect, source, resolved
  <2>2. \/ stage = "resolved" /\ stage' = "inner" /\ outer' = now + t /\ deadline' = deadline
        \/ stage = "direct" /\ stage' = "dial" /\ deadline' = now + t /\ outer' = outer
    BY <1>3, Zenon DEF CallResolved, CallDirect
  <2>3. ConnectTypeOK /\ Progress /\ StreamCarriesNonce
    BY Zenon DEF ConnectInv
  <2>4. /\ now \in Nat /\ t \in Nat /\ outer \in Nat /\ deadline \in Nat /\ now + t \in Nat
        /\ now <= now + t
    BY <2>3, ConnectAssumption DEF ConnectTypeOK
  <2>5. returned = "none"
    BY <2>2, <2>3, Zenon DEF Progress
  <2>6. ConnectTypeOK'
    BY <2>1, <2>2, <2>3, <2>4, Zenon DEF ConnectTypeOK, Unopened
  <2>7. Progress'
    BY <2>1, <2>2, <2>3, Zenon DEF Progress, Unopened
  <2>8. Deadline'
    BY <2>1, <2>2, <2>3, <2>4, Zenon DEF Deadline, Progress
  <2>9. ResolvedIsExact'
    BY <2>1, <2>2, <2>5, Zenon DEF ResolvedIsExact
  <2>10. StreamCarriesNonce'
    BY <2>1, <2>3, Zenon DEF StreamCarriesNonce
  <2> QED BY <2>6, <2>7, <2>8, <2>9, <2>10, Zenon DEF ConnectInv
<1> QED BY <1>1, <1>2, <1>3, Zenon

\* Steps of connect that open no stream yet.
LEMMA DialingInv ==
    ASSUME ConnectInv, Enter \/ DialBusy \/ PauseEnds
    PROVE  ConnectInv'
<1>1. CASE Enter /\ Refusal(timeout) # "none"
  <2>1. stage # "done" /\ ConnectReturns(Refusal(timeout)) /\ UNCHANGED resolved
    BY <1>1, Zenon DEF Enter
  <2> QED BY <2>1, <1>1, RefusalInv, Zenon
<1>2. CASE (Enter /\ Refusal(timeout) = "none") \/ DialBusy \/ PauseEnds
  <2>1. /\ windows' = windows /\ printed' = printed /\ file' = file /\ now' = now
        /\ sent' = sent /\ used' = used /\ nonce' = nonce /\ returned' = returned
        /\ stream' = stream
        /\ start' = start /\ timeout' = timeout /\ outer' = outer
    BY <1>2, Zenon DEF Enter, DialBusy, PauseEnds, source, resolved
  <2>2. \/ stage = "inner" /\ stage' = "dial" /\ deadline' = now + timeout
        \/ stage \in {"dial", "pause"} /\ stage' \in {"dial", "pause"} /\ deadline' = deadline
    BY <1>2, Zenon DEF Enter, DialBusy, PauseEnds
  <2>3. ConnectTypeOK /\ Progress /\ Deadline /\ StreamCarriesNonce
    BY Zenon DEF ConnectInv
  <2>4. now \in Nat /\ timeout \in Nat /\ deadline \in Nat /\ now + timeout \in Nat
    BY <2>3 DEF ConnectTypeOK
  <2>5. returned = "none"
    BY <2>2, <2>3, Zenon DEF Progress
  <2>6. ConnectTypeOK'
    BY <2>1, <2>2, <2>3, <2>4, Zenon DEF ConnectTypeOK, Unopened
  <2>7. Progress'
    BY <2>1, <2>2, <2>3, Zenon DEF Progress, Unopened
  <2>8. Deadline'
    BY <2>1, <2>2, <2>3, Zenon DEF Deadline, Connecting
  <2>9. ResolvedIsExact'
    BY <2>1, <2>2, <2>5, Zenon DEF ResolvedIsExact
  <2>10. StreamCarriesNonce'
    BY <2>1, <2>3, Zenon DEF StreamCarriesNonce
  <2> QED BY <2>6, <2>7, <2>8, <2>9, <2>10, Zenon DEF ConnectInv
<1> QED BY <1>1, <1>2, Zenon

\* A stream is opened, and handed out at once if it needs no nonce.
LEMMA DialConnectsInv ==
    ASSUME ConnectInv, DialConnects
    PROVE  ConnectInv'
<1>1. /\ stage = "dial" /\ stream' = "open" /\ deadline' = Never
      /\ windows' = windows /\ printed' = printed /\ file' = file /\ now' = now
      /\ sent' = sent /\ used' = used /\ nonce' = nonce
      /\ start' = start /\ timeout' = timeout /\ outer' = outer
  BY Zenon DEF DialConnects, source, resolved
<1>2. \/ nonce = <<>> /\ stage' = "done" /\ returned' = "Ok"
      \/ nonce # <<>> /\ stage' = "nonce" /\ returned' = returned
  BY Zenon DEF DialConnects
<1>3. ConnectTypeOK /\ Progress /\ Deadline /\ StreamCarriesNonce
  BY Zenon DEF ConnectInv
<1>4. sent = <<>> /\ returned = "none"
  BY <1>1, <1>3, Zenon DEF Progress, Unopened
<1>5. Never \in Nat
  BY ConnectAssumption DEF Never
<1>6. ConnectTypeOK'
  BY <1>1, <1>2, <1>3, <1>5, Zenon DEF ConnectTypeOK
<1>7. Progress'
  BY <1>1, <1>2, <1>3, <1>4, Zenon DEF Progress, Unopened
<1>8. Deadline'
  BY <1>1, <1>2, <1>3, Zenon DEF Deadline, Connecting
<1>9. ResolvedIsExact'
  BY <1>2, <1>4, Zenon DEF ResolvedIsExact
<1>10. starts_with(nonce', sent')
  BY <1>1, <1>3, Zenon DEF StreamCarriesNonce
<1>11. StreamCarriesNonce'
  BY <1>1, <1>2, <1>4, <1>10, Zenon DEF StreamCarriesNonce
<1> QED BY <1>6, <1>7, <1>8, <1>9, <1>11, Zenon DEF ConnectInv

\* Writing and flushing the nonce preserves ConnectInv.
LEMMA WriteNonceInv ==
    ASSUME ConnectInv, WriteNonce
    PROVE  ConnectInv'
<1>1. /\ stage = "nonce" /\ stage' = (IF sent' = nonce THEN "flush" ELSE "nonce")
      /\ windows' = windows /\ printed' = printed /\ file' = file /\ now' = now
      /\ used' = used /\ nonce' = nonce /\ returned' = returned /\ stream' = stream
      /\ start' = start /\ timeout' = timeout /\ outer' = outer /\ deadline' = deadline
  BY Zenon DEF WriteNonce, source, resolved, timers
<1>2. PICK n \in 1..(Len(nonce) - Len(sent)) : sent' = SubSeq(nonce, 1, Len(sent) + n)
  BY Zenon DEF WriteNonce
<1>3. ConnectTypeOK /\ Progress /\ Deadline /\ StreamCarriesNonce
  BY Zenon DEF ConnectInv
<1>4. nonce \in Seq(FileByte) /\ sent \in Seq(FileByte) /\ returned = "none" /\ stream = "open"
  BY <1>1, <1>3, Zenon DEF ConnectTypeOK, Progress
<1> DEFINE k == Len(sent) + n
<1>5. k \in Nat /\ k <= Len(nonce) /\ Len(nonce) \in Nat
  BY <1>2, <1>4
<1> HIDE DEF k
<1>6. /\ SubSeq(nonce, 1, k) \in Seq(FileByte) /\ Len(SubSeq(nonce, 1, k)) = k
      /\ \A i \in 1..k : SubSeq(nonce, 1, k)[i] = nonce[i]
  BY <1>4, <1>5
<1>7. sent' = SubSeq(nonce, 1, k)
  BY <1>2, Zenon DEF k
<1>8. starts_with(nonce, SubSeq(nonce, 1, k))
  <2> DEFINE s == SubSeq(nonce, 1, k)
  <2>1. s \in Seq(FileByte) /\ Len(s) <= Len(nonce) /\ \A i \in 1..Len(s) : s[i] = nonce[i]
    BY <1>5, <1>6, Zenon
  <2> HIDE DEF s
  <2>2. starts_with(nonce, s)
    BY <2>1, <1>4, ElementsPrefix, Zenon
  <2> QED BY <2>2, Zenon DEF s
<1>9. stage' \in {"nonce", "flush"} /\ (stage' = "flush" => sent' = nonce)
  BY <1>1, Zenon
<1>10. sent' \in Seq(FileByte)
  BY <1>6, <1>7, Zenon
<1>11. ConnectTypeOK'
  BY <1>1, <1>3, <1>9, <1>10, Zenon DEF ConnectTypeOK
<1>12. Progress'
  BY <1>1, <1>3, <1>4, <1>9, Zenon DEF Progress, Unopened
<1>13. Deadline'
  BY <1>1, <1>3, <1>9, Zenon DEF Deadline, Connecting
<1>14. ResolvedIsExact'
  BY <1>1, <1>4, <1>9, Zenon DEF ResolvedIsExact
<1>15. starts_with(nonce', sent')
  BY <1>1, <1>7, <1>8, Zenon
<1>16. StreamCarriesNonce'
  BY <1>1, <1>4, <1>15, Zenon DEF StreamCarriesNonce
<1> QED BY <1>11, <1>12, <1>13, <1>14, <1>16, Zenon DEF ConnectInv

\* Time passes only up to the deadline.
LEMMA TickInv ==
    ASSUME ConnectInv, Tick
    PROVE  ConnectInv'
<1>1. /\ stage \in Connecting /\ ~(now >= outer) /\ ~(now >= deadline) /\ now' = now + 1
      /\ stage' = stage /\ sent' = sent
      /\ windows' = windows /\ printed' = printed /\ file' = file
      /\ used' = used /\ nonce' = nonce /\ returned' = returned /\ stream' = stream
      /\ start' = start /\ timeout' = timeout /\ outer' = outer /\ deadline' = deadline
  BY Zenon DEF Tick, Due, source, resolved, timers
<1>2. ConnectTypeOK /\ Progress /\ Deadline /\ StreamCarriesNonce
  BY Zenon DEF ConnectInv
<1>3. /\ now \in Nat /\ outer \in Nat /\ deadline \in Nat /\ start + timeout \in Nat
      /\ now + 1 \in Nat /\ returned = "none" /\ stage # "resolved"
  BY <1>1, <1>2 DEF ConnectTypeOK, Progress, Connecting
<1>4. ConnectTypeOK'
  BY <1>1, <1>2, <1>3, Zenon DEF ConnectTypeOK
<1>5. Progress'
  BY <1>1, <1>2, Zenon DEF Progress
<1>6. Deadline'
  <2>1. /\ now <= start + timeout
        /\ \/ outer = start + timeout
           \/ nonce = <<>> /\ deadline = start + timeout /\ stage \in {"dial", "pause"}
    BY <1>1, <1>2, Zenon DEF Deadline
  <2>2. now + 1 <= start + timeout
    BY <2>1, <1>1, <1>3
  <2> QED BY <2>1, <2>2, <1>1, Zenon DEF Deadline
<1>7. ResolvedIsExact'
  BY <1>1, <1>3, Zenon DEF ResolvedIsExact
<1>8. StreamCarriesNonce'
  BY <1>1, <1>2, Zenon DEF StreamCarriesNonce
<1> QED BY <1>4, <1>5, <1>6, <1>7, <1>8, Zenon DEF ConnectInv

\* Every step of ConnectNext preserves ConnectInv.
LEMMA ConnectNextInv ==
    ASSUME ConnectInv, [ConnectNext]_connectVars
    PROVE  ConnectInv'
<1>1. CASE UNCHANGED connectVars
  <2>1. /\ stage' = stage /\ sent' = sent /\ now' = now /\ endpoint' = endpoint
        /\ windows' = windows /\ printed' = printed /\ file' = file
        /\ used' = used /\ nonce' = nonce /\ returned' = returned /\ stream' = stream
        /\ start' = start /\ timeout' = timeout /\ outer' = outer /\ deadline' = deadline
    BY <1>1, Zenon DEF connectVars, source, resolved, timers
  <2>2. ConnectTypeOK' /\ Progress' /\ Deadline' /\ StreamCarriesNonce'
    BY <2>1, Zenon DEF ConnectInv, ConnectTypeOK, Progress, Deadline, StreamCarriesNonce
  <2>3. output_path(printed)' = output_path(printed)
    BY <2>1, Zenon DEF output_path, Unended
  <2>4. ResolvedIsExact'
    BY <2>1, <2>3, Zenon DEF ConnectInv, ResolvedIsExact
  <2> QED BY <2>2, <2>4, Zenon DEF ConnectInv
<1>2. CASE ResolvePath
  BY <1>2, ResolvePathInv, Zenon
<1>3. CASE \/ ReadFails \/ ResolveTimesOut \/ DialFails \/ Flush \/ WriteFails
           \/ DeadlineExpires \/ Cancel
  BY <1>3, FailuresInv, Zenon
<1>4. CASE ReadFile
  BY <1>4, ReadFileInv, Zenon
<1>5. CASE ReadEnds
  BY <1>5, ReadEndsInv, Zenon
<1>6. CASE Call
  BY <1>6, CallInv, Zenon
<1>7. CASE Enter \/ DialBusy \/ PauseEnds
  BY <1>7, DialingInv, Zenon
<1>8. CASE DialConnects
  BY <1>8, DialConnectsInv, Zenon
<1>9. CASE WriteNonce
  BY <1>9, WriteNonceInv, Zenon
<1>10. CASE Tick
  BY <1>10, TickInv, Zenon
<1> QED BY <1>1, <1>2, <1>3, <1>4, <1>5, <1>6, <1>7, <1>8, <1>9, <1>10, Zenon DEF ConnectNext

\* ConnectInv is an invariant, for every file, timeout and clock bound.
THEOREM ConnectInvariance == ConnectSpec => []ConnectInv
<1>1. ConnectInit => ConnectInv
  BY ConnectInitInv, Zenon
<1>2. ConnectInv /\ [ConnectNext]_connectVars => ConnectInv'
  BY ConnectNextInv, Zenon
<1> QED BY <1>1, <1>2, PTL DEF ConnectSpec

\* What resolve hands out (discovery.rs:61) is what was printed or written, and a
\* file is refused only if it is not of the form that the parser accepts.
THEOREM ResolvedStaysExact == ConnectSpec => []ResolvedIsExact
<1>1. ConnectInv => ResolvedIsExact
  BY Zenon DEF ConnectInv
<1> QED BY <1>1, ConnectInvariance, PTL

\* The caller gets the stream only after exactly the nonce went over it, and a
\* failed or cancelled attempt keeps none (discovery.rs:133-150).
THEOREM StreamAlwaysCarriesNonce == ConnectSpec => []StreamCarriesNonce
<1>1. ConnectInv => StreamCarriesNonce
  BY Zenon DEF ConnectInv
<1> QED BY <1>1, ConnectInvariance, PTL

\* No step of a connect under way is later than its timeout.
OnTime == stage \in Connecting => now' <= start + timeout

\* The two deadlines and the retries of a busy pipe stay within one timeout.
THEOREM ConnectIsOnTime == ConnectSpec => [][OnTime]_connectVars
<1>1. ConnectInv /\ ConnectInv' /\ [ConnectNext]_connectVars => [OnTime]_connectVars
  <2>1. SUFFICES ASSUME ConnectInv, ConnectInv', ConnectNext, stage \in Connecting
                 PROVE  now' <= start + timeout
    BY Zenon DEF OnTime
  <2>2. now <= start + timeout
    BY <2>1, Zenon DEF ConnectInv, Deadline
  <2>3. CASE Tick
    <3>1. stage' \in Connecting /\ start' = start /\ timeout' = timeout
      BY <2>1, <2>3, Zenon DEF Tick, timers
    <3> QED BY <3>1, <2>1, Zenon DEF ConnectInv, Deadline
  <2>4. CASE ~Tick
    <3>1. now' = now
      BY <2>1, <2>4, Zenon DEF ConnectNext, ResolvePath, ReadFails, ReadFile, ReadEnds,
         ResolveTimesOut, Call, CallResolved, CallDirect, CallRefused, Enter, DialFails,
         DialConnects, DialBusy, PauseEnds, WriteNonce, Flush, WriteFails, DeadlineExpires,
         Cancel, ConnectReturns
    <3> QED BY <3>1, <2>2, Zenon
  <2> QED BY <2>3, <2>4, Zenon
<1> QED BY <1>1, ConnectInvariance, PTL DEF ConnectSpec
=============================================================================
