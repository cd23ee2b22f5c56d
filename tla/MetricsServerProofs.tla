------------------------- MODULE MetricsServerProofs -------------------------
(***************************************************************************)
(* The certificate watcher, alone and in the metrics server, for any       *)
(* number of rotations, handlers and connections.                          *)
(***************************************************************************)
EXTENDS MetricsServer, TLAPS

\* Version v is not newer than what is rolled out, nor than the certificate
\* file, if there is one.
Behind(v) == v <= target /\ (disk["cert"] # Missing => v <= disk["cert"])

(* The inductive invariant.  The content of the certificate file only gets *)
(* newer, so what was read from it earlier, and what is cached of it, is   *)
(* Behind; and a read that has got its certificate has got one that is not *)
(* older than the one that was cached when the read began.                 *)
ReadsAreBehind ==
  /\ Behind(disk["cert"])
  /\ Behind(current)
  /\ \A r \in Readers : Behind(block[r]) /\ Behind(seen[r])

ReadsGoForward ==
  \A r \in Readers : pc[r] \in {"cert", "parsed"} => block[r] # Missing /\ seen[r] <= block[r]

UpdatesAreCertificates == \A r \in Readers : pc[r] = "updated" => block[r] # Missing

\* A goroutine that is not yet started is not in the middle of a read.
ReadersAreStarted ==
  /\ start = "none" => pc["poll"] = "off"
  /\ start \in {"none", "New", "created", "error", "adding"} => pc["watch"] = "off"

CertInv ==
  /\ CertTypeOK
  /\ ReadsAreBehind
  /\ ReadsGoForward
  /\ UpdatesAreCertificates
  /\ ReadersAreStarted
  /\ CallbackKnows

-----------------------------------------------------------------------------
(* Initially nothing has been read.                                        *)
LEMMA CertInit_Inv == CertInit => CertInv
<1> SUFFICES ASSUME CertInit PROVE CertInv
    OBVIOUS
<1> USE CertConstants
<1>1. /\ disk \in [Files -> Versions \cup {Missing}] /\ target = 0
      /\ disk["cert"] \in {0, Missing}
  BY DEF CertInit, Files, Versions, Missing
<1>a. 0 \in Versions /\ target \in Versions /\ calls \in [Versions -> Nat]
  BY <1>1 DEF CertInit, Versions
<1>b. /\ pc \in [Readers -> {"off", "idle", "reading", "cert", "parsed", "updated"}]
      /\ block \in [Readers -> Versions \cup {Missing}]
      /\ seen \in [Readers -> Versions \cup {Missing}]
  BY DEF CertInit
<1>2. CertTypeOK
  BY <1>1, <1>a, <1>b DEF CertInit, CertTypeOK
<1>3. ReadsAreBehind
  BY <1>1 DEF CertInit, ReadsAreBehind, Behind, Missing
<1>4. ReadsGoForward /\ UpdatesAreCertificates /\ CallbackKnows
  BY DEF CertInit, ReadsGoForward, UpdatesAreCertificates, CallbackKnows
<1>5. ReadersAreStarted
  BY DEF CertInit, ReadersAreStarted, Readers
<1> QED BY <1>2, <1>3, <1>4, <1>5 DEF CertInv

-----------------------------------------------------------------------------
(* The type invariant                                                      *)

\* Every step of the watcher keeps the types.
LEMMA CertNext_Type == CertTypeOK /\ ReadsGoForward /\ UpdatesAreCertificates /\ CertNext => CertTypeOK'
<1> SUFFICES ASSUME CertTypeOK, ReadsGoForward, UpdatesAreCertificates, CertNext PROVE CertTypeOK'
    OBVIOUS
<1> USE CertConstants
<1> DEFINE Labels == {"off", "idle", "reading", "cert", "parsed", "updated"}
           Contents == Versions \cup {Missing}
<1>1. CASE Rotate
  <2>1. target' \in Versions
    BY <1>1 DEF Rotate, CertTypeOK, Versions
  <2> QED BY <1>1, <2>1 DEF Rotate, CertTypeOK, life, notice
<1>2. ASSUME NEW f \in Files, Change(f) PROVE CertTypeOK'
  <2>1. PICK content \in {target, Missing}, op \in Ops :
          /\ disk' = [disk EXCEPT ![f] = content]
          /\ events' = IF f \in watched THEN events \cup {<<f, op>>} ELSE events
          /\ watched' = IF op = "Write" THEN watched ELSE watched \ {f}
    BY <1>2 DEF Change
  <2>2. disk' \in [Files -> Contents]
    BY <2>1 DEF CertTypeOK
  <2>3. events' \subseteq Files \X Ops /\ watched' \subseteq Files
    BY <2>1 DEF CertTypeOK
  <2> QED BY <1>2, <2>2, <2>3 DEF Change, CertTypeOK, life, notice
<1>3. ASSUME NEW r \in Readers, ReadCertFile(r) PROVE CertTypeOK'
  <2>1. \E l \in Labels : pc' = [pc EXCEPT ![r] = l]
    BY <1>3 DEF ReadCertFile, Goto
  <2>2. pc' \in [Readers -> Labels]
    BY <2>1 DEF CertTypeOK
  <2>3. block' \in [Readers -> Contents]
    BY <1>3 DEF ReadCertFile, CertTypeOK, Files
  <2> QED BY <1>3, <2>2, <2>3 DEF ReadCertFile, CertTypeOK, fs, life, notice
<1>4. ASSUME NEW r \in Readers, ReadKeyFile(r) PROVE CertTypeOK'
  <2>1. \E l \in Labels : pc' = [pc EXCEPT ![r] = l]
    BY <1>4 DEF ReadKeyFile, Goto
  <2>2. pc' \in [Readers -> Labels]
    BY <2>1 DEF CertTypeOK
  <2> QED BY <1>4, <2>2 DEF ReadKeyFile, CertTypeOK, fs, life, notice
<1>5. ASSUME NEW r \in Readers, updateCachedCertificate(r) PROVE CertTypeOK'
  <2>1. \E l \in Labels : pc' = [pc EXCEPT ![r] = l]
    BY <1>5 DEF updateCachedCertificate, Goto
  <2>2. pc' \in [Readers -> Labels] /\ current' \in Contents
    BY <1>5, <2>1 DEF CertTypeOK, updateCachedCertificate
  <2> QED BY <1>5, <2>2 DEF updateCachedCertificate, CertTypeOK, fs, life, notice
<1>6. ASSUME NEW r \in Readers, Notify(r) PROVE CertTypeOK'
  <2>1. pc' = [pc EXCEPT ![r] = "idle"]
    BY <1>6 DEF Notify, Goto
  <2>2. pc' \in [Readers -> Labels]
    BY <2>1 DEF CertTypeOK
  <2>3. block[r] \in Versions /\ calls[block[r]] + 1 \in Nat
    BY <1>6 DEF Notify, CertTypeOK, UpdatesAreCertificates
  <2>4. calls' \in [Versions -> Nat]
    BY <1>6, <2>3 DEF Notify, CertTypeOK
  <2> QED BY <1>6, <2>2, <2>4 DEF Notify, CertTypeOK, fs, life
<1>7. ASSUME NEW v \in Versions, Callback(v) PROVE CertTypeOK'
  <2>1. calls[v] - 1 \in Nat
    BY <1>7 DEF Callback, CertTypeOK
  <2>2. calls' \in [Versions -> Nat] /\ heard' \subseteq Versions
    BY <1>7, <2>1 DEF Callback, CertTypeOK
  <2> QED BY <1>7, <2>2 DEF Callback, CertTypeOK, fs, life
<1>8. CASE RegisterCallback
  <2>1. heard' \subseteq Versions
    BY <1>8 DEF RegisterCallback, CertTypeOK
  <2> QED BY <1>8, <2>1 DEF RegisterCallback, CertTypeOK, fs, life
<1>9. ASSUME NEW r \in Readers, Begin(r) PROVE pc' \in [Readers -> Labels] /\ seen' \in [Readers -> Contents]
  BY <1>9 DEF Begin, Goto, CertTypeOK
<1>10. CASE New \/ Poll
  BY <1>10, <1>9 DEF New, Poll, Readers, CertTypeOK, fs, life, notice
<1>11. CASE HandleEvent
  <2>1. PICK e \in events :
          /\ events' = events \ {e}
          /\ watched' = IF e[2] = "Remove" /\ disk[e[1]] # Missing THEN watched \cup {e[1]} ELSE watched
          /\ IF e[2] = "Rename" THEN UNCHANGED <<pc, seen>> ELSE Begin("watch")
    BY <1>11 DEF HandleEvent
  <2>2. e[1] \in Files
    BY <2>1 DEF CertTypeOK
  <2>3. watched' \subseteq Files /\ events' \subseteq Files \X Ops
    BY <2>1, <2>2 DEF CertTypeOK
  <2>4. pc' \in [Readers -> Labels] /\ seen' \in [Readers -> Contents]
    BY <2>1, <1>9 DEF Readers, CertTypeOK
  <2> QED BY <1>11, <2>3, <2>4 DEF HandleEvent, CertTypeOK, life, notice
<1>12. CASE NewReturn \/ Start \/ AddTimeout \/ Stop \/ Cancel
  BY <1>12 DEF NewReturn, Start, AddTimeout, Stop, Cancel, CertTypeOK, fs, notice
<1>13. CASE \E f \in Files : AddWatch(f)
  BY <1>13 DEF AddWatch, CertTypeOK, notice
<1>14. CASE GoWatch \/ WatchExit
  <2>1. pc' \in [Readers -> Labels]
    BY <1>14 DEF GoWatch, WatchExit, Goto, CertTypeOK
  <2> QED BY <1>14, <2>1 DEF GoWatch, WatchExit, CertTypeOK, fs, life, notice
<1> QED
  BY <1>1, <1>2, <1>3, <1>4, <1>5, <1>6, <1>7, <1>8, <1>10, <1>11, <1>12, <1>13, <1>14
  DEF CertNext, Watching, Surroundings, Owner, ReadCertificate

-----------------------------------------------------------------------------
(* Versions as integers, and what a step on the label of one reader keeps. *)

\* Versions are integers, Missing the least of them.
LEMMA VersionFacts ==
  ASSUME CertTypeOK
  PROVE  /\ target \in Nat
         /\ disk["cert"] \in Int /\ disk["cert"] >= Missing
         /\ current \in Int /\ current >= Missing
         /\ \A r \in Readers : block[r] \in Int /\ seen[r] \in Int
BY CertConstants DEF CertTypeOK, Versions, Missing, Files

(* Nothing that was read is newer than the certificate file: only Rotate   *)
(* and Change touch what Behind is about, and both go forward.             *)
LEMMA BehindIsStable ==
  ASSUME CertTypeOK, CertNext, NEW v \in Int, Behind(v)
  PROVE  Behind(v)'
<1> USE VersionFacts
<1>1. CASE Rotate
  BY <1>1 DEF Rotate, Behind
<1>2. ASSUME NEW f \in Files, Change(f) PROVE Behind(v)'
  <2>1. PICK content \in {target, Missing} : disk' = [disk EXCEPT ![f] = content]
    BY <1>2 DEF Change
  <2>2. disk'["cert"] \in {disk["cert"], target, Missing}
    BY <2>1 DEF CertTypeOK, Files
  <2>3. target' = target
    BY <1>2 DEF Change
  <2> QED BY <2>2, <2>3 DEF Behind
<1>3. ASSUME UNCHANGED <<disk, target>> PROVE Behind(v)'
  BY <1>3 DEF Behind
<1>4. Rotate \/ (\E f \in Files : Change(f)) \/ UNCHANGED <<disk, target>>
  BY DEF CertNext, Watching, Surroundings, Owner, ReadCertificate, ReadCertFile, ReadKeyFile,
         updateCachedCertificate, Notify, Callback, RegisterCallback, New, NewReturn, Start, AddWatch,
         AddTimeout, GoWatch, Poll, Stop, HandleEvent, WatchExit, Cancel, fs
<1> QED BY <1>1, <1>2, <1>3, <1>4

(* Every step keeps the part of the invariant that is about the reads.     *)
LEMMA CertNext_Reads ==
  ASSUME CertInv, CertNext
  PROVE  ReadsAreBehind' /\ ReadsGoForward' /\ UpdatesAreCertificates'
<1> DEFINE After(v) == v <= target' /\ (disk'["cert"] # Missing => v <= disk'["cert"])
<1>0. /\ CertTypeOK /\ ReadsAreBehind /\ ReadsGoForward /\ UpdatesAreCertificates
      /\ pc \in [Readers -> {"off", "idle", "reading", "cert", "parsed", "updated"}]
      /\ block \in [Readers -> Versions \cup {Missing}]
      /\ seen \in [Readers -> Versions \cup {Missing}]
  BY DEF CertInv, CertTypeOK
<1>t. /\ target \in Nat /\ disk["cert"] \in Int /\ disk["cert"] >= Missing
      /\ current \in Int
      /\ \A r \in Readers : block[r] \in Int /\ seen[r] \in Int
  BY <1>0, VersionFacts
<1>a. After(disk["cert"]) /\ After(current) /\ \A r \in Readers : After(block[r]) /\ After(seen[r])
  <2>1. \A v \in Int : Behind(v) => After(v)
    BY <1>0, BehindIsStable DEF Behind
  <2> QED BY <2>1, <1>0, <1>t DEF ReadsAreBehind
<1>1. CASE Rotate
  <2>1. UNCHANGED <<disk, pc, block, seen, current>>
    BY <1>1 DEF Rotate
  <2> QED BY <1>0, <1>a, <2>1 DEF ReadsAreBehind, Behind, ReadsGoForward, UpdatesAreCertificates
<1>2. ASSUME NEW f \in Files, Change(f)
      PROVE  ReadsAreBehind' /\ ReadsGoForward' /\ UpdatesAreCertificates'
  <2>1. UNCHANGED <<target, pc, block, seen, current>>
    BY <1>2 DEF Change
  <2>2. disk'["cert"] \in {disk["cert"], target, Missing}
    BY <1>0, <1>2 DEF Change, CertTypeOK, Files
  <2>3. disk'["cert"] <= target' /\ disk'["cert"] <= disk'["cert"]
    BY <1>0, <1>t, <2>1, <2>2 DEF ReadsAreBehind, Behind, Missing
  <2> QED BY <1>0, <1>a, <2>1, <2>3 DEF ReadsAreBehind, Behind, ReadsGoForward, UpdatesAreCertificates
<1>3. ASSUME NEW r \in Readers, ReadCertFile(r)
      PROVE  ReadsAreBehind' /\ ReadsGoForward' /\ UpdatesAreCertificates'
  <2>1. UNCHANGED <<disk, target, seen, current>>
    BY <1>3 DEF ReadCertFile, fs
  <2>2. /\ block'[r] = disk["cert"]
        /\ \A s \in Readers : s # r => block'[s] = block[s] /\ pc'[s] = pc[s]
        /\ pc'[r] = IF disk["cert"] = Missing THEN "idle" ELSE "cert"
    BY <1>0, <1>3 DEF ReadCertFile, Goto
  <2>3. ReadsAreBehind'
    BY <1>a, <2>1, <2>2 DEF ReadsAreBehind, Behind
  <2>4. disk["cert"] # Missing => seen[r] <= disk["cert"]
    BY <1>0 DEF ReadsAreBehind, Behind
  <2>5. ReadsGoForward'
    BY <1>0, <2>1, <2>2, <2>4 DEF ReadsGoForward
  <2>6. UpdatesAreCertificates'
    BY <1>0, <2>2 DEF UpdatesAreCertificates
  <2> QED BY <2>3, <2>5, <2>6
<1>4. ASSUME NEW r \in Readers, ReadKeyFile(r) \/ updateCachedCertificate(r) \/ Notify(r)
      PROVE  ReadsAreBehind' /\ ReadsGoForward' /\ UpdatesAreCertificates'
  <2>1. UNCHANGED <<disk, target, seen, block>> /\ current' \in {current, block[r]}
    BY <1>4 DEF ReadKeyFile, updateCachedCertificate, Notify, fs
  <2>2. /\ \A s \in Readers : s # r => pc'[s] = pc[s]
        /\ \/ pc[r] = "cert" /\ pc'[r] \in {"idle", "parsed"}
           \/ pc[r] = "parsed" /\ pc'[r] \in {"idle", "updated"}
           \/ pc'[r] = "idle"
    BY <1>0, <1>4 DEF ReadKeyFile, updateCachedCertificate, Notify, Goto
  <2>3. ReadsAreBehind'
    BY <1>a, <2>1 DEF ReadsAreBehind, Behind
  <2>4. ReadsGoForward' /\ UpdatesAreCertificates'
    BY <1>0, <2>1, <2>2 DEF ReadsGoForward, UpdatesAreCertificates
  <2> QED BY <2>3, <2>4
<1>5. ASSUME NEW r \in Readers, Begin(r), UNCHANGED <<disk, target, block, current>>
      PROVE  ReadsAreBehind' /\ ReadsGoForward' /\ UpdatesAreCertificates'
  <2>1. /\ seen'[r] = current /\ pc'[r] = "reading"
        /\ \A s \in Readers : s # r => pc'[s] = pc[s] /\ seen'[s] = seen[s]
    BY <1>0, <1>5 DEF Begin, Goto
  <2>2. ReadsAreBehind'
    BY <1>a, <1>5, <2>1 DEF ReadsAreBehind, Behind
  <2>3. ReadsGoForward' /\ UpdatesAreCertificates'
    BY <1>0, <1>5, <2>1 DEF ReadsGoForward, UpdatesAreCertificates
  <2> QED BY <2>2, <2>3
<1>6. ASSUME UNCHANGED <<disk, target, block, current, seen>>,
             pc' = pc \/ \E l \in {"idle", "off"} : pc' = [pc EXCEPT !["watch"] = l]
      PROVE  ReadsAreBehind' /\ ReadsGoForward' /\ UpdatesAreCertificates'
  <2>1. \A s \in Readers : pc'[s] = pc[s] \/ pc'[s] \in {"idle", "off"}
    BY <1>0, <1>6 DEF Readers
  <2> QED BY <1>0, <1>6, <2>1 DEF ReadsAreBehind, Behind, ReadsGoForward, UpdatesAreCertificates
<1>7. CASE New \/ Poll \/ HandleEvent
  <2>1. UNCHANGED <<disk, target, block, current>>
    BY <1>7 DEF New, Poll, HandleEvent, fs
  <2>2. Begin("poll") \/ Begin("watch") \/ UNCHANGED <<pc, seen>>
    BY <1>7 DEF New, Poll, HandleEvent
  <2> QED BY <1>5, <1>6, <2>1, <2>2 DEF Readers
<1>8. CASE \/ \E v \in Versions : Callback(v)
           \/ RegisterCallback \/ NewReturn \/ Start \/ AddTimeout \/ Stop \/ Cancel
           \/ \E f \in Files : AddWatch(f)
           \/ GoWatch \/ WatchExit
  BY <1>8, <1>6
  DEF Callback, RegisterCallback, NewReturn, Start, AddTimeout, Stop, Cancel, AddWatch, GoWatch,
      WatchExit, Goto, fs
<1> QED
  BY <1>1, <1>2, <1>3, <1>4, <1>7, <1>8 DEF CertNext, Watching, Surroundings, Owner, ReadCertificate

-----------------------------------------------------------------------------
(* The callback                                                            *)

(* Every step keeps CallbackKnows.                                         *)
LEMMA CertNext_Callback ==
  ASSUME CertInv, CertNext
  PROVE  CallbackKnows'
<1>0. /\ CallbackKnows /\ UpdatesAreCertificates
      /\ pc \in [Readers -> {"off", "idle", "reading", "cert", "parsed", "updated"}]
      /\ block \in [Readers -> Versions \cup {Missing}]
      /\ calls \in [Versions -> Nat]
      /\ current \in Versions \cup {Missing}
  BY DEF CertInv, CertTypeOK
<1>1. ASSUME UNCHANGED <<notice, current>>,
             \A r \in Readers : pc[r] = "updated" => pc'[r] = "updated" /\ block'[r] = block[r]
      PROVE  CallbackKnows'
  BY <1>0, <1>1 DEF CallbackKnows, notice
<1>2. ASSUME NEW r \in Readers, ReadCertFile(r) \/ ReadKeyFile(r) PROVE CallbackKnows'
  <2>1. \A s \in Readers : pc[s] = "updated" => pc'[s] = "updated" /\ block'[s] = block[s]
    BY <1>0, <1>2 DEF ReadCertFile, ReadKeyFile, Goto
  <2> QED BY <1>1, <1>2, <2>1 DEF ReadCertFile, ReadKeyFile
<1>3. ASSUME NEW r \in Readers, updateCachedCertificate(r) PROVE CallbackKnows'
  <2>1. /\ current' = block[r] /\ UNCHANGED <<block, notice>>
        /\ pc[r] = "parsed" /\ pc' = [pc EXCEPT ![r] = IF current = block[r] THEN "idle" ELSE "updated"]
    BY <1>3 DEF updateCachedCertificate, Goto
  <2>2. CASE current = block[r]
    <3>1. \A s \in Readers : pc[s] = "updated" => pc'[s] = "updated" /\ block'[s] = block[s]
      BY <1>0, <2>1, <2>2
    <3> QED BY <1>1, <2>1, <2>2, <3>1
  <2>3. CASE current # block[r]
    <3>1. pc'[r] = "updated" /\ block'[r] = current'
      BY <1>0, <2>1, <2>3
    <3> QED BY <3>1 DEF CallbackKnows
  <2> QED BY <2>2, <2>3
<1>4. ASSUME NEW r \in Readers, Notify(r) PROVE CallbackKnows'
  <2>1. /\ UNCHANGED <<block, current, callback, heard>> /\ pc[r] = "updated"
        /\ \A s \in Readers : s # r => pc'[s] = pc[s]
        /\ block[r] \in Versions
    BY <1>0, <1>4 DEF Notify, Goto, UpdatesAreCertificates
  <2>2. callback => /\ calls'[block[r]] = calls[block[r]] + 1
                    /\ \A v \in Versions : v # block[r] => calls'[v] = calls[v]
    BY <1>0, <1>4, <2>1 DEF Notify
  <2>3. callback => /\ calls'[block[r]] > 0
                    /\ \A v \in Versions : calls[v] > 0 => calls'[v] > 0
    BY <1>0, <2>1, <2>2
  <2> QED BY <1>0, <2>1, <2>3 DEF CallbackKnows
<1>5. ASSUME NEW v \in Versions, Callback(v) PROVE CallbackKnows'
  <2>1. /\ UNCHANGED <<pc, block, current, callback>> /\ heard' = heard \cup {v}
        /\ \A w \in Versions : w # v => calls'[w] = calls[w]
    BY <1>0, <1>5 DEF Callback
  <2> QED BY <1>0, <2>1 DEF CallbackKnows
<1>6. CASE RegisterCallback
  BY <1>6 DEF RegisterCallback, CallbackKnows
<1>7. CASE New \/ Poll \/ HandleEvent \/ GoWatch \/ WatchExit
  <2>1. UNCHANGED <<block, notice, current>>
    BY <1>7 DEF New, Poll, HandleEvent, GoWatch, WatchExit
  <2>2. \/ UNCHANGED pc
        \/ \E s \in Readers, l \in {"reading", "idle", "off"} :
             pc[s] # "updated" /\ pc' = [pc EXCEPT ![s] = l]
    <3>1. CASE New
      <4>1. pc["poll"] = "off" /\ pc' = [pc EXCEPT !["poll"] = "reading"]
        BY <3>1 DEF New, Begin, Goto, CertInv, ReadersAreStarted
      <4> QED BY <4>1 DEF Readers
    <3>2. CASE Poll
      <4>1. pc["poll"] = "idle" /\ pc' = [pc EXCEPT !["poll"] = "reading"]
        BY <3>2 DEF Poll, Begin, Goto
      <4> QED BY <4>1 DEF Readers
    <3>3. CASE HandleEvent
      <4>1. pc["watch"] = "idle" /\ (pc' = [pc EXCEPT !["watch"] = "reading"] \/ UNCHANGED pc)
        BY <3>3 DEF HandleEvent, Begin, Goto
      <4> QED BY <4>1 DEF Readers
    <3>4. CASE GoWatch
      <4>1. pc["watch"] = "off" /\ pc' = [pc EXCEPT !["watch"] = "idle"]
        BY <3>4 DEF GoWatch, Goto, CertInv, ReadersAreStarted
      <4> QED BY <4>1 DEF Readers
    <3>5. CASE WatchExit
      <4>1. pc["watch"] = "idle" /\ pc' = [pc EXCEPT !["watch"] = "off"]
        BY <3>5 DEF WatchExit, Goto
      <4> QED BY <4>1 DEF Readers
    <3> QED BY <1>7, <3>1, <3>2, <3>3, <3>4, <3>5
  <2>3. \A s \in Readers : pc[s] = "updated" => pc'[s] = "updated"
    BY <1>0, <2>2
  <2> QED BY <1>1, <2>1, <2>3
<1>8. CASE \/ NewReturn \/ Start \/ AddTimeout \/ Stop \/ Cancel \/ Rotate
           \/ \E f \in Files : AddWatch(f) \/ Change(f)
  BY <1>8, <1>1
  DEF NewReturn, Start, AddTimeout, Stop, Cancel, Rotate, AddWatch, Change
<1> QED
  BY <1>2, <1>3, <1>4, <1>5, <1>6, <1>7, <1>8
  DEF CertNext, Watching, Surroundings, Owner, ReadCertificate

(* The goroutines are started in order.                                    *)
LEMMA CertNext_Started ==
  ASSUME CertInv, CertNext
  PROVE  ReadersAreStarted'
<1>0. /\ ReadersAreStarted
      /\ pc \in [Readers -> {"off", "idle", "reading", "cert", "parsed", "updated"}]
  BY DEF CertInv, CertTypeOK
<1>1. ASSUME UNCHANGED <<start, pc>> PROVE ReadersAreStarted'
  BY <1>0, <1>1 DEF ReadersAreStarted
<1>2. ASSUME NEW r \in Readers, ReadCertificate(r) PROVE ReadersAreStarted'
  <2>1. UNCHANGED start /\ pc[r] # "off" /\ \A s \in Readers : s # r => pc'[s] = pc[s]
    BY <1>0, <1>2
    DEF ReadCertificate, ReadCertFile, ReadKeyFile, updateCachedCertificate, Notify, Goto, life
  <2> QED BY <1>0, <2>1 DEF ReadersAreStarted, Readers
<1>3. CASE New
  <2>1. start = "none" /\ start' = "New" /\ pc'["watch"] = pc["watch"]
    BY <1>0, <1>3 DEF New, Begin, Goto, Readers
  <2> QED BY <1>0, <2>1 DEF ReadersAreStarted
<1>4. CASE Poll \/ HandleEvent \/ WatchExit
  <2>1. /\ UNCHANGED start
        /\ \/ UNCHANGED pc
           \/ start = "polling"
           \/ pc["watch"] = "idle" /\ pc'["poll"] = pc["poll"]
    BY <1>0, <1>4 DEF Poll, HandleEvent, WatchExit, Begin, Goto, life, Readers
  <2> QED BY <1>0, <2>1 DEF ReadersAreStarted
<1>5. CASE GoWatch \/ AddTimeout \/ Stop
  BY <1>5 DEF GoWatch, AddTimeout, Stop, ReadersAreStarted
<1>6. CASE NewReturn \/ Start
  <2>1. UNCHANGED pc /\ start \in {"New", "created"} /\ start' # "none"
    BY <1>6 DEF NewReturn, Start
  <2> QED BY <1>0, <2>1 DEF ReadersAreStarted
<1>7. CASE \/ \E v \in Versions : Callback(v)
           \/ RegisterCallback \/ Cancel \/ Rotate
           \/ \E f \in Files : AddWatch(f) \/ Change(f)
  BY <1>7, <1>1 DEF Callback, RegisterCallback, Cancel, Rotate, AddWatch, Change, life
<1> QED
  BY <1>2, <1>3, <1>4, <1>5, <1>6, <1>7 DEF CertNext, Watching, Surroundings, Owner

-----------------------------------------------------------------------------
(* The theorems                                                            *)

\* Every step of the watcher keeps its invariant.
LEMMA CertNext_Inv == CertInv /\ [CertNext]_cwvars => CertInv'
<1>1. ASSUME CertInv, CertNext PROVE CertInv'
  BY <1>1, CertNext_Type, CertNext_Reads, CertNext_Started, CertNext_Callback DEF CertInv
<1>2. ASSUME CertInv, UNCHANGED cwvars PROVE CertInv'
  BY <1>2
  DEF CertInv, CertTypeOK, ReadsAreBehind, Behind, ReadsGoForward, UpdatesAreCertificates,
      ReadersAreStarted, CallbackKnows, cwvars, fs, life, notice
<1> QED BY <1>1, <1>2

\* The invariant of the watcher holds throughout.
LEMMA CertInvariant == CertSpec => []CertInv
BY CertInit_Inv, CertNext_Inv, PTL DEF CertSpec

(* The variables of the watcher keep their types for every MaxVersion.     *)
THEOREM CertTypeTheorem == CertSpec => []CertTypeOK
<1>1. CertInv => CertTypeOK
  BY DEF CertInv
<1> QED BY <1>1, CertInvariant, PTL

(* A registered callback has been called with the current certificate, or  *)
(* the call is under way, however RegisterCallback and the two goroutines  *)
(* that read certificates interleave.                                      *)
THEOREM CallbackTheorem == CertSpec => []CallbackKnows
<1>1. CertInv => CallbackKnows
  BY DEF CertInv
<1> QED BY <1>1, CertInvariant, PTL

(* updateCachedCertificate replaces a certificate by an older one only if  *)
(* the read that stores it began before the newer one was stored.          *)
THEOREM RaceTheorem == CertSpec => GoesBackInRaceOnly
<1>1. ASSUME CertInv, NEW r \in Readers, updateCachedCertificate(r), current' < current
      PROVE  seen[r] # current
  <2>1. current' = block[r] /\ seen[r] <= block[r]
    BY <1>1 DEF updateCachedCertificate, CertInv, ReadsGoForward
  <2>2. current \in Int /\ block[r] \in Int /\ seen[r] \in Int
    BY <1>1, VersionFacts DEF CertInv
  <2> QED BY <1>1, <2>1, <2>2
<1>2. CertInv =>
        [\A r \in Readers :
           updateCachedCertificate(r) /\ current' < current => seen[r] # current]_cwvars
  BY <1>1
<1> QED BY <1>2, CertInvariant, PTL DEF GoesBackInRaceOnly

-----------------------------------------------------------------------------
(* The watcher in the server                                               *)

(* The server touches the watcher only through New and Start, which it     *)
(* calls once each and in this order: what it does to the watcher is what  *)
(* a client of the package may do.                                         *)
THEOREM ServerRunsWatcher == Spec => CertSpec
<1>1. Init => CertInit
  BY DEF Init
<1>2. [Next]_vars => [CertNext]_cwvars
  <2> SUFFICES ASSUME [Next]_vars PROVE CertNext \/ UNCHANGED cwvars
    OBVIOUS
  <2>1. CASE (Watching \/ Surroundings) /\ UNCHANGED svars
    BY <2>1 DEF CertNext
  <2>2. CASE Client
    BY <2>2 DEF Client, CertNext
  <2>3. CASE StatKey \/ WatcherMade
    BY <2>3 DEF StatKey, WatcherMade, CertNext, Owner
  <2>4. CASE NewServer \/ (\E path \in Paths : AddExtraHandler(path)) \/ WithLogger
    BY <2>4 DEF NewServer, AddExtraHandler, WithLogger
  <2>5. CASE StatCert \/ SelfSigned \/ Listen \/ Mount \/ StartReturns
    BY <2>5 DEF StatCert, SelfSigned, Listen, Mount, StartReturns
  <2>6. CASE Shutdown \/ ShutdownReturns \/ Accept \/ CloseConn \/ ServeError
    BY <2>6 DEF Shutdown, ShutdownReturns, Accept, CloseConn, ServeError
  <2>7. CASE UNCHANGED vars
    BY <2>7 DEF vars
  <2> QED BY <2>1, <2>2, <2>3, <2>4, <2>5, <2>6, <2>7 DEF Next, Serving, Closing
<1> QED BY <1>1, <1>2, PTL DEF Spec, CertSpec

(* CallbackKnows, with the server around the watcher.                      *)
THEOREM ServerCallback == Spec => []CallbackKnows
BY ServerRunsWatcher, CallbackTheorem, PTL

(* GoesBackInRaceOnly, with the server around the watcher.                 *)
THEOREM ServerRace == Spec => GoesBackInRaceOnly
BY ServerRunsWatcher, RaceTheorem, PTL

(* The invariant behind HandshakeHasCertificate: New fails unless it has   *)
(* read a certificate, the cache is never emptied again, and over TLS with *)
(* files there is no listener before New has succeeded.                    *)
HandshakeInv ==
  /\ Created => current # Missing
  /\ tls = "files" /\ srv \in {"listen", "bound", "serving"} => Created

\* A watcher that was created stays so, and what it has cached is never dropped.
LEMMA WatcherKeepsCertificate ==
  ASSUME CertInv, CertNext
  PROVE  /\ current # Missing => current' # Missing
         /\ Created => Created'
         /\ Created' => Created \/ current' # Missing
<1>1. current # Missing => current' # Missing
  <2>1. ASSUME NEW r \in Readers, updateCachedCertificate(r) PROVE current' # Missing
    BY <2>1 DEF updateCachedCertificate, CertInv, ReadsGoForward
  <2>2. (\E r \in Readers : updateCachedCertificate(r)) \/ UNCHANGED current
    BY DEF CertNext, Watching, Surroundings, Owner, ReadCertificate, ReadCertFile, ReadKeyFile,
           Notify, Callback, RegisterCallback, New, NewReturn, Start, AddWatch, AddTimeout,
           GoWatch, Poll, Stop, HandleEvent, WatchExit, Cancel, Rotate, Change
  <2> QED BY <2>1, <2>2
<1>2. \/ New \/ NewReturn \/ Start \/ AddTimeout \/ GoWatch \/ Stop \/ UNCHANGED start
  BY DEF CertNext, Watching, Surroundings, Owner, ReadCertificate, ReadCertFile, ReadKeyFile,
         updateCachedCertificate, Notify, Callback, RegisterCallback, AddWatch,
         Poll, HandleEvent, WatchExit, Cancel, Rotate, Change, life
<1>3. CASE New \/ Start \/ AddTimeout \/ GoWatch \/ Stop \/ UNCHANGED start
  BY <1>1, <1>3 DEF New, Start, AddTimeout, GoWatch, Stop, Created
<1>4. CASE NewReturn
  BY <1>1, <1>4 DEF NewReturn, Created
<1> QED BY <1>1, <1>2, <1>3, <1>4

\* Every step of the server and the watcher keeps HandshakeInv.
LEMMA HandshakeNext ==
  ASSUME CertInv, HandshakeInv, [Next]_vars
  PROVE  HandshakeInv'
<1>1. ASSUME CertNext PROVE Created' => current' # Missing
  BY <1>1, WatcherKeepsCertificate DEF HandshakeInv
<1>2. ASSUME UNCHANGED cwvars PROVE (Created' <=> Created) /\ (Created' => current' # Missing)
  BY <1>2 DEF cwvars, life, Created, HandshakeInv
<1>3. CASE ((Watching \/ Surroundings) \/ Owner) /\ UNCHANGED svars
  BY <1>1, <1>3, WatcherKeepsCertificate DEF CertNext, svars, HandshakeInv
<1>4. CASE StatKey \/ WatcherMade
  <2>1. CertNext \/ UNCHANGED cwvars
    BY <1>4 DEF StatKey, WatcherMade, CertNext, Owner
  <2>2. srv' \notin {"listen", "bound", "serving"} \/ Created'
    BY <1>4 DEF StatKey, WatcherMade, Start, Created
  <2> QED BY <1>1, <1>2, <2>1, <2>2 DEF HandshakeInv
<1>5. CASE NewServer \/ (\E path \in Paths : AddExtraHandler(path)) \/ WithLogger
  BY <1>2, <1>5 DEF NewServer, AddExtraHandler, WithLogger, HandshakeInv
<1>6. CASE StatCert \/ SelfSigned \/ Listen \/ Mount \/ StartReturns
  BY <1>2, <1>6 DEF StatCert, SelfSigned, Listen, Mount, StartReturns, HandshakeInv
<1>7. CASE Shutdown \/ ShutdownReturns \/ Accept \/ CloseConn \/ ServeError
  BY <1>2, <1>7 DEF Shutdown, ShutdownReturns, Accept, CloseConn, ServeError, HandshakeInv
<1>8. CASE UNCHANGED vars
  BY <1>2, <1>8 DEF vars, svars, HandshakeInv
<1> QED BY <1>3, <1>4, <1>5, <1>6, <1>7, <1>8 DEF Next, Serving, Closing, Client

(* A TLS handshake never gets a nil certificate from a watcher: the server *)
(* does not listen before New has cached one, and no failed read, removed  *)
(* file or overlapping read ever takes it away.                            *)
THEOREM HandshakeTheorem == Spec => []HandshakeHasCertificate
<1>1. Init => HandshakeInv
  BY DEF Init, CertInit, HandshakeInv, Created
<1>2. CertInv /\ HandshakeInv /\ [Next]_vars => HandshakeInv'
  BY HandshakeNext
<1>3. HandshakeInv => HandshakeHasCertificate
  BY DEF HandshakeInv, HandshakeHasCertificate
<1> QED BY <1>1, <1>2, <1>3, ServerRunsWatcher, CertInvariant, PTL DEF Spec

=============================================================================
