------------------------------ MODULE ExportsProofs ------------------------------
(***************************************************************************)
(* The lock-free readers of the store, for any number of callers,          *)
(* providers, objects and damage: what they hand out is what they hashed,  *)
(* and a bundle is imported whole or without its manifests.                *)
(***************************************************************************)
EXTENDS Exports, FiniteSetTheorems, TLAPS

Busy == {"hash", "open", "rehash", "copy"}
Reading == {"rehash", "copy"}

\* The call in hand has one object, that is neither to come nor behind it.
CurrentInv(c) ==
    /\ pc[c] \in Busy => \E o \in Objects : current[c] = {o} /\ o \notin todo[c] \union wrong[c]
    /\ pc[c] \notin Reading <=> handle[c] = "none"
    /\ handle[c] = "linked" => \A o \in current[c] : object[o] # "absent"
    /\ pc[c] # "idle" => /\ kind[c] \in Kinds /\ result[c] = "none"
                         /\ wrong[c] \intersect todo[c] = {}

\* The open file, or the one about to be opened, holds other bytes than its digest names.
OpenBad(c, o) == handle[c] = "bad" \/ (handle[c] = "linked" /\ object[o] = "bad")

\* Between a hash and the use of what was hashed, bytes are wrong only where the disk
\* has damaged them since; each kind of call knows what it has not hashed.
HashedInv(c) ==
    /\ pc[c] = "hash" => kind[c] \in Prehashed
    /\ pc[c] = "rehash" => kind[c] = "copy"
    /\ kind[c] = "index" => pc[c] \notin {"open", "rehash", "copy"}
    /\ kind[c] \in Prehashed /\ pc[c] = "open"
       => \A o \in current[c] : object[o] = "bad" => o \in rotted[c]
    /\ kind[c] \notin Private /\ pc[c] = "copy"
       => \A o \in current[c] : OpenBad(c, o) => o \in rotted[c]

\* Wrong bytes that were written: the way to OnlyVerifiedLeaves.
WrongInv(c) ==
    /\ kind[c] \notin Private => wrong[c] \subseteq rotted[c]
    /\ wrong[c] # {} => \/ kind[c] = "bundle"
                        \/ pc[c] = "idle" /\ result[c] # "ok"

CallInv(c) == CurrentInv(c) /\ HashedInv(c) /\ WrongInv(c)

\* What store_reader has returned of is intact, or damaged since, and the importing
\* store holds no wrong bytes but for damage: the way to ImportedIntact.
ImportInv ==
    /\ \A o \in landed : target[o] = "good" \/ o \in harmed
    /\ \A o \in Objects : target[o] = "bad" => o \in harmed
    /\ ImportedIntact

ExportsInv == ExportsTypeOK /\ (\A c \in Calls : CallInv(c)) /\ ImportInv

-----------------------------------------------------------------------------
(* Sets of at most one element.                                            *)

LEMMA NoneOrOne == Cardinality({}) <= 1 /\ \A o : Cardinality({o}) <= 1
  BY FS_EmptySet, FS_Singleton

\* What an open file reads, when the object in hand is o.
LEMMA BytesOf ==
  ASSUME NEW c \in Calls, NEW o \in Objects, current[c] = {o}
  PROVE  Bytes(c) = IF handle[c] = "linked" THEN object[o] ELSE handle[c]
<1>1. (CHOOSE x \in current[c] : TRUE) = o
  OBVIOUS
<1> QED
  BY <1>1 DEF Bytes

LEMMA ExportsInit == Init => ExportsInv
<1> SUFFICES ASSUME Init PROVE ExportsInv
  OBVIOUS
<1>1. ExportsTypeOK
  BY NoneOrOne, ExportsAssumption DEF Init, ExportsTypeOK, States, Archives
<1>2. ASSUME NEW c \in Calls PROVE CallInv(c)
  BY DEF Init, CallInv, CurrentInv, HashedInv, WrongInv, Busy, Reading, Private, Prehashed
<1>3. ImportInv
  BY DEF Init, ImportInv, ImportedIntact, ObjectsOf
<1> QED
  BY <1>1, <1>2, <1>3 DEF ExportsInv

-----------------------------------------------------------------------------
(* The steps of one call.                                                  *)

\* The other calls notice nothing of it.
Others(c) ==
    \A d \in Calls \ {c} :
       /\ pc'[d] = pc[d] /\ kind'[d] = kind[d] /\ result'[d] = result[d]
       /\ todo'[d] = todo[d] /\ current'[d] = current[d] /\ handle'[d] = handle[d]
       /\ wrong'[d] = wrong[d] /\ rotted'[d] = rotted[d]

\* A step that leaves the importer alone keeps its part of the invariant.
LEMMA ImportSame == ImportInv /\ UNCHANGED importer => ImportInv'
  BY DEF ImportInv, ImportedIntact, ObjectsOf, importer

LEMMA CallStep ==
  ASSUME ExportsInv, NEW c \in Calls, ExportsTypeOK', CallInv(c)', Others(c), Quiet
  PROVE  ExportsInv'
<1>1. object' = object /\ UNCHANGED importer
  BY DEF Quiet, store, importer
<1>2. ASSUME NEW d \in Calls, d # c PROVE CallInv(d)'
  <2>1. /\ pc'[d] = pc[d] /\ kind'[d] = kind[d] /\ result'[d] = result[d]
        /\ todo'[d] = todo[d] /\ current'[d] = current[d] /\ handle'[d] = handle[d]
        /\ wrong'[d] = wrong[d] /\ rotted'[d] = rotted[d]
    BY <1>2 DEF Others
  <2>2. CallInv(d)
    BY DEF ExportsInv
  <2> QED
    BY <1>1, <2>1, <2>2 DEF CallInv, CurrentInv, HashedInv, WrongInv, OpenBad
<1>3. ImportInv'
  BY <1>1, ImportSame DEF ExportsInv
<1> QED
  BY <1>2, <1>3 DEF ExportsInv

\* The end of a call, whatever it wrote before.
LEMMA LeaveCall ==
  ASSUME ExportsInv, NEW c \in Calls, NEW outcome \in {"ok", "refused", "failed"},
         Leave(c, outcome), Quiet, rotted' = rotted, archive' \in Archives,
         wrong' \in [Calls -> SUBSET Objects], \A d \in Calls \ {c} : wrong'[d] = wrong[d],
         kind[c] \notin Private => wrong'[c] \subseteq rotted[c],
         wrong'[c] # {} => kind[c] = "bundle" \/ outcome # "ok"
  PROVE  ExportsInv'
<1>1. ExportsTypeOK'
  BY NoneOrOne DEF ExportsInv, ExportsTypeOK, Leave, Quiet, store, importer
<1>2. /\ pc'[c] = "idle" /\ result'[c] = outcome /\ handle'[c] = "none"
      /\ kind' = kind /\ todo'[c] = {}
  BY DEF ExportsInv, ExportsTypeOK, Leave
<1>3. CallInv(c)'
  BY <1>2 DEF CallInv, CurrentInv, HashedInv, WrongInv, Busy, Reading
<1>4. Others(c)
  BY DEF ExportsInv, ExportsTypeOK, Others, Leave
<1> QED
  BY <1>1, <1>3, <1>4, CallStep

LEMMA StopCall ==
  ASSUME ExportsInv, NEW c \in Calls, NEW outcome \in {"refused", "failed"},
         Stop(c, outcome), Quiet
  PROVE  ExportsInv'
<1>1. /\ Leave(c, outcome) /\ rotted' = rotted /\ archive' \in Archives /\ wrong' = wrong
      /\ wrong' \in [Calls -> SUBSET Objects]
  BY DEF Stop, ExportsInv, ExportsTypeOK
<1>2. kind[c] \notin Private => wrong[c] \subseteq rotted[c]
  BY DEF ExportsInv, CallInv, WrongInv
<1> QED
  BY <1>1, <1>2, LeaveCall

LEMMA BeginCall == ASSUME ExportsInv, NEW c \in Calls, Begin(c) PROVE ExportsInv'
<1>1. PICK k \in Kinds, P \in SUBSET Providers \ {{}}, o \in Objects :
        /\ kind' = [kind EXCEPT ![c] = k]
        /\ closure' = [closure EXCEPT ![c] = P]
        /\ unread' = [unread EXCEPT ![c] = IF k \in Indexed THEN P ELSE {}]
        /\ todo' = [todo EXCEPT ![c] = IF k \in Single THEN {o} ELSE ObjectsOf(P)]
  BY DEF Begin
<1>2. /\ pc[c] = "idle" /\ pc' = [pc EXCEPT ![c] = "pick"]
      /\ result' = [result EXCEPT ![c] = "none"]
      /\ wrong' = [wrong EXCEPT ![c] = {}] /\ rotted' = [rotted EXCEPT ![c] = {}]
      /\ UNCHANGED <<store, importer, current, handle, archive>>
  BY DEF Begin, Goto, Quiet
<1>3. ObjectsOf(P) \subseteq Objects
  BY ExportsAssumption DEF ObjectsOf
<1>4. ExportsTypeOK'
  BY <1>1, <1>2, <1>3 DEF ExportsInv, ExportsTypeOK, store, importer
<1>5. CallInv(c)'
  <2>1. /\ pc'[c] = "pick" /\ result'[c] = "none" /\ wrong'[c] = {}
        /\ handle'[c] = handle[c] /\ kind'[c] = k
    BY <1>1, <1>2 DEF ExportsInv, ExportsTypeOK
  <2>2. handle[c] = "none"
    BY <1>2 DEF ExportsInv, CallInv, CurrentInv, Reading
  <2> QED
    BY <2>1, <2>2 DEF CallInv, CurrentInv, HashedInv, WrongInv, Busy, Reading
<1>6. Others(c)
  BY <1>1, <1>2 DEF ExportsInv, ExportsTypeOK, Others
<1> QED
  BY <1>2, <1>4, <1>5, <1>6, CallStep DEF Quiet

LEMMA LoadCall == ASSUME ExportsInv, NEW c \in Calls, LoadManifest(c) PROVE ExportsInv'
<1>1. CASE Refuse(c)
  BY <1>1, StopCall DEF LoadManifest, Refuse
<1>2. CASE ~ Refuse(c)
  <2>1. PICK pr \in unread[c] :
          /\ unread' = [unread EXCEPT ![c] = @ \ {pr}]
          /\ UNCHANGED <<pc, kind, result, closure, todo, current, handle, wrong, rotted,
                         archive>>
    BY <1>2 DEF LoadManifest
  <2>2. Quiet
    BY DEF LoadManifest
  <2>3. ExportsTypeOK'
    BY <2>1, <2>2 DEF ExportsInv, ExportsTypeOK, Quiet, store, importer
  <2>4. CallInv(c)'
    BY <2>1, <2>2
       DEF ExportsInv, CallInv, CurrentInv, HashedInv, WrongInv, OpenBad, Quiet, store
  <2>5. Others(c)
    BY <2>1 DEF Others
  <2> QED
    BY <2>2, <2>3, <2>4, <2>5, CallStep
<1> QED
  BY <1>1, <1>2

\* The object in hand is neither to come nor among the wrong ones.
LEMMA PickCall == ASSUME ExportsInv, NEW c \in Calls, Pick(c) PROVE ExportsInv'
<1>1. PICK o \in Ready(c) :
        /\ current' = [current EXCEPT ![c] = {o}]
        /\ todo' = [todo EXCEPT ![c] = @ \ {o}]
  BY DEF Pick
<1>2. o \in todo[c] /\ todo[c] \subseteq Objects
  BY DEF Ready, ExportsInv, ExportsTypeOK
<1>3. PICK step \in {"hash", "open"} :
        /\ pc' = [pc EXCEPT ![c] = step]
        /\ step = "hash" <=> kind[c] \in Prehashed
  BY DEF Pick, Goto
<1>4. /\ pc[c] = "pick" /\ Quiet
      /\ UNCHANGED <<kind, result, closure, unread, handle, wrong, rotted, archive>>
  BY DEF Pick
<1>5. handle[c] = "none"
  BY <1>4 DEF ExportsInv, CallInv, CurrentInv, Reading
<1>6. ExportsTypeOK'
  <2>1. ASSUME NEW d \in Calls
        PROVE  Cardinality(current'[d]) <= 1 /\ (handle'[d] # "none" => current'[d] # {})
    BY <1>1, <1>4, NoneOrOne DEF ExportsInv, ExportsTypeOK
  <2> QED
    BY <1>1, <1>2, <1>3, <1>4, <2>1 DEF ExportsInv, ExportsTypeOK, Quiet, store, importer
<1>7. CallInv(c)'
  <2>1. /\ pc'[c] = step /\ current'[c] = {o} /\ todo'[c] = todo[c] \ {o}
        /\ handle'[c] = "none" /\ object' = object
    BY <1>1, <1>3, <1>4, <1>5 DEF ExportsInv, ExportsTypeOK, Quiet, store
  <2>2. /\ o \notin wrong[c] /\ wrong[c] \intersect todo[c] = {}
        /\ kind[c] \in Kinds /\ result[c] = "none"
    BY <1>2, <1>4 DEF ExportsInv, CallInv, CurrentInv
  <2>3. CurrentInv(c)'
    BY <1>2, <1>4, <2>1, <2>2 DEF CurrentInv, Busy, Reading
  <2>4. HashedInv(c)'
    <3>1. kind[c] = "index" => kind[c] \in Prehashed
      BY DEF Prehashed
    <3>2. step = "open" => kind[c] \notin Prehashed
      BY <1>3
    <3> QED
      BY <1>3, <1>4, <2>1, <3>1, <3>2 DEF HashedInv, Prehashed
  <2>5. WrongInv(c)'
    BY <1>4, <2>1 DEF ExportsInv, CallInv, WrongInv
  <2> QED
    BY <2>3, <2>4, <2>5 DEF CallInv
<1>8. Others(c)
  BY <1>1, <1>3, <1>4 DEF ExportsInv, ExportsTypeOK, Others
<1> QED
  BY <1>4, <1>6, <1>7, <1>8, CallStep

\* After a hash that came out right, the object in hand is what its digest names.
LEMMA HashedCall ==
  ASSUME ExportsInv, NEW c \in Calls, NEW step \in {"pick", "open", "copy"},
         Hashed(c, step), Quiet, pc[c] \in Busy,
         step = "pick" => handle[c] = "none",
         step = "open" => kind[c] # "index" /\ handle[c] = "none"
                          /\ \A o \in current[c] : object[o] # "bad",
         step = "copy" => kind[c] # "index" /\ handle[c] # "none"
                          /\ \A o \in current[c] : ~ OpenBad(c, o)
  PROVE  ExportsInv'
<1>1. /\ pc' = [pc EXCEPT ![c] = step]
      /\ rotted' = [rotted EXCEPT ![c] = @ \ current[c]]
      /\ UNCHANGED <<kind, result, closure, unread, todo, current, handle, wrong, archive>>
  BY DEF Hashed, Goto
<1>2. object' = object
  BY DEF Quiet, store
<1>3. ExportsTypeOK'
  BY <1>1 DEF ExportsInv, ExportsTypeOK, Quiet, store, importer
<1>4. PICK o \in Objects : current[c] = {o} /\ o \notin todo[c] \union wrong[c]
  BY DEF ExportsInv, CallInv, CurrentInv
<1>5. CallInv(c)'
  <2>1. pc'[c] = step /\ rotted'[c] = rotted[c] \ {o}
    BY <1>1, <1>4 DEF ExportsInv, ExportsTypeOK
  <2>2. CallInv(c)
    BY DEF ExportsInv
  <2>3. CurrentInv(c)'
    BY <1>1, <1>2, <1>4, <2>1, <2>2 DEF CallInv, CurrentInv, Busy, Reading
  <2>4. HashedInv(c)'
    BY <1>1, <1>2, <1>4, <2>1 DEF HashedInv, OpenBad
  <2>5. WrongInv(c)'
    BY <1>1, <1>4, <2>1, <2>2 DEF CallInv, WrongInv, Busy
  <2> QED
    BY <2>3, <2>4, <2>5 DEF CallInv
<1>6. Others(c)
  BY <1>1 DEF ExportsInv, ExportsTypeOK, Others
<1> QED
  BY <1>3, <1>5, <1>6, CallStep

LEMMA HashPathCall == ASSUME ExportsInv, NEW c \in Calls, HashPath(c) PROVE ExportsInv'
<1>1. CASE Refuse(c)
  BY <1>1, StopCall DEF HashPath, Refuse
<1>2. CASE ~ Refuse(c)
  <2>1. PICK o \in current[c] :
          object[o] = "good" /\ Hashed(c, IF kind[c] = "index" THEN "pick" ELSE "open")
    BY <1>2 DEF HashPath
  <2>2. pc[c] = "hash" /\ Quiet
    BY DEF HashPath
  <2>3. handle[c] = "none" /\ \A x \in current[c] : x = o
    BY <2>1, <2>2 DEF ExportsInv, CallInv, CurrentInv, Reading, Busy
  <2>4. CASE kind[c] = "index"
    BY <2>1, <2>2, <2>3, <2>4, HashedCall DEF Busy
  <2>5. CASE kind[c] # "index"
    BY <2>1, <2>2, <2>3, <2>5, HashedCall DEF Busy
  <2> QED
    BY <2>4, <2>5
<1> QED
  BY <1>1, <1>2

LEMMA OpenCall == ASSUME ExportsInv, NEW c \in Calls, OpenObject(c) PROVE ExportsInv'
<1>1. CASE Refuse(c)
  BY <1>1, StopCall DEF OpenObject, Refuse
<1>2. CASE ~ Refuse(c)
  <2>1. PICK o \in current[c] :
          /\ object[o] # "absent"
          /\ handle' = [handle EXCEPT ![c] = "linked"]
          /\ pc' = [pc EXCEPT ![c] = IF kind[c] = "copy" THEN "rehash" ELSE "copy"]
          /\ UNCHANGED <<kind, result, closure, unread, todo, current, wrong, rotted, archive>>
    BY <1>2 DEF OpenObject, Goto
  <2>2. pc[c] = "open" /\ Quiet
    BY DEF OpenObject
  <2>3. CallInv(c) /\ \A x \in current[c] : x = o
    BY <2>1, <2>2 DEF ExportsInv, CallInv, CurrentInv, Busy
  <2>4. ExportsTypeOK'
    BY <2>1, <2>2 DEF ExportsInv, ExportsTypeOK, Quiet, store, importer
  <2>5. CallInv(c)'
    <3>1. /\ pc'[c] = IF kind[c] = "copy" THEN "rehash" ELSE "copy"
          /\ handle'[c] = "linked" /\ object' = object
      BY <2>1, <2>2 DEF ExportsInv, ExportsTypeOK, Quiet, store
    <3>2. CurrentInv(c)'
      BY <2>1, <2>2, <2>3, <3>1 DEF CallInv, CurrentInv, Busy, Reading
    <3>3. HashedInv(c)'
      <4>1. kind[c] \notin Private /\ kind[c] # "copy" /\ kind[c] # "index"
            => kind[c] \in Prehashed
        BY <2>2, <2>3, ExportsAssumption DEF CallInv, CurrentInv, Private, Prehashed
      <4> QED
        BY <2>1, <2>2, <2>3, <3>1, <4>1 DEF CallInv, HashedInv, OpenBad
    <3>4. WrongInv(c)'
      BY <2>1, <2>2, <2>3, <3>1 DEF CallInv, WrongInv
    <3> QED
      BY <3>2, <3>3, <3>4 DEF CallInv
  <2>6. Others(c)
    BY <2>1 DEF ExportsInv, ExportsTypeOK, Others
  <2> QED
    BY <2>2, <2>4, <2>5, <2>6, CallStep
<1> QED
  BY <1>1, <1>2

LEMMA HashHandleCall == ASSUME ExportsInv, NEW c \in Calls, HashHandle(c) PROVE ExportsInv'
<1>1. CASE Refuse(c)
  BY <1>1, StopCall DEF HashHandle, Refuse
<1>2. CASE ~ Refuse(c)
  <2>1. pc[c] = "rehash" /\ Quiet /\ Bytes(c) = "good" /\ Hashed(c, "copy")
    BY <1>2 DEF HashHandle
  <2>2. handle[c] # "none" /\ kind[c] = "copy"
    BY <2>1 DEF ExportsInv, CallInv, CurrentInv, HashedInv, Reading
  <2>3. PICK o \in Objects : current[c] = {o}
    BY <2>1 DEF ExportsInv, CallInv, CurrentInv, Busy
  <2>4. \A x \in current[c] : ~ OpenBad(c, x)
    BY <2>1, <2>3, BytesOf DEF OpenBad
  <2> QED
    BY <2>1, <2>2, <2>4, HashedCall DEF Busy
<1> QED
  BY <1>1, <1>2

\* Only an archive keeps wrong bytes and goes on; the disk damaged them after the hash.
LEMMA CopyCall == ASSUME ExportsInv, NEW c \in Calls, Copy(c) PROVE ExportsInv'
<1>1. PICK o \in Objects : current[c] = {o} /\ o \notin todo[c] \union wrong[c]
  BY DEF ExportsInv, CallInv, CurrentInv, Copy, Busy
<1>2. /\ pc[c] = "copy" /\ Quiet /\ rotted' = rotted /\ archive' = archive
      /\ wrong' = [wrong EXCEPT ![c] = IF Bytes(c) = "good" THEN @ ELSE @ \union {o}]
  BY <1>1 DEF Copy
<1>3. /\ wrong' \in [Calls -> SUBSET Objects] /\ \A d \in Calls \ {c} : wrong'[d] = wrong[d]
      /\ wrong'[c] = IF Bytes(c) = "good" THEN wrong[c] ELSE wrong[c] \union {o}
  BY <1>2 DEF ExportsInv, ExportsTypeOK
<1>4. Bytes(c) = "good" \/ OpenBad(c, o)
  <2>1. handle[c] \in {"linked", "good", "bad"} /\ object[o] \in States
    BY <1>2 DEF ExportsInv, ExportsTypeOK, CallInv, CurrentInv, Reading
  <2>2. handle[c] = "linked" => object[o] # "absent"
    BY <1>1 DEF ExportsInv, CallInv, CurrentInv
  <2> QED
    BY <1>1, <2>1, <2>2, BytesOf DEF OpenBad, States
<1>5. kind[c] \notin Private => wrong'[c] \subseteq rotted[c]
  BY <1>1, <1>2, <1>3, <1>4 DEF ExportsInv, CallInv, HashedInv, WrongInv
<1>6. CASE Leave(c, "refused")
  BY <1>2, <1>3, <1>5, <1>6, LeaveCall DEF ExportsInv, ExportsTypeOK
<1>7. CASE ~ Leave(c, "refused")
  <2>1. /\ Bytes(c) = "good" \/ kind[c] = "bundle"
        /\ pc' = [pc EXCEPT ![c] = "pick"] /\ handle' = [handle EXCEPT ![c] = "none"]
        /\ UNCHANGED <<kind, result, closure, unread, todo, current>>
    BY <1>7 DEF Copy, Goto
  <2>2. ExportsTypeOK'
    BY <1>2, <1>3, <2>1 DEF ExportsInv, ExportsTypeOK, Quiet, store, importer
  <2>3. CallInv(c)'
    <3>1. pc'[c] = "pick" /\ handle'[c] = "none" /\ object' = object
      BY <1>2, <2>1 DEF ExportsInv, ExportsTypeOK, Quiet, store
    <3>2. CallInv(c)
      BY DEF ExportsInv
    <3>3. CurrentInv(c)'
      BY <1>1, <1>2, <1>3, <2>1, <3>1, <3>2 DEF CallInv, CurrentInv, Busy, Reading
    <3>4. HashedInv(c)'
      BY <3>1 DEF HashedInv
    <3>5. WrongInv(c)'
      BY <1>2, <1>3, <1>5, <2>1, <3>2 DEF CallInv, WrongInv
    <3> QED
      BY <3>3, <3>4, <3>5 DEF CallInv
  <2>4. Others(c)
    BY <1>2, <1>3, <2>1 DEF ExportsInv, ExportsTypeOK, Others
  <2> QED
    BY <1>2, <2>2, <2>3, <2>4, CallStep
<1> QED
  BY <1>6, <1>7

LEMMA FinishCall == ASSUME ExportsInv, NEW c \in Calls, Finish(c) PROVE ExportsInv'
<1>1. pc[c] = "pick" /\ Leave(c, "ok") /\ Quiet /\ rotted' = rotted /\ wrong' = wrong
  BY DEF Finish
<1>2. archive' \in Archives
  BY DEF Finish, ExportsInv, ExportsTypeOK, Archives
<1>3. /\ kind[c] \notin Private => wrong[c] \subseteq rotted[c]
      /\ wrong[c] # {} => kind[c] = "bundle"
  BY <1>1 DEF ExportsInv, CallInv, WrongInv
<1> QED
  BY <1>1, <1>2, <1>3, LeaveCall DEF ExportsInv, ExportsTypeOK

LEMMA FailCall == ASSUME ExportsInv, NEW c \in Calls, Fail(c) PROVE ExportsInv'
  BY StopCall DEF Fail

-----------------------------------------------------------------------------
(* The disk and the store's other users.                                   *)

\* Damage is noted with every call: what was hashed before may be wrong from now on.
LEMMA RotKept == ASSUME ExportsInv, NEW x \in Objects, Rot(x) PROVE ExportsInv'
<1>1. /\ object' = [object EXCEPT ![x] = "bad"]
      /\ rotted' = [c \in Calls |-> rotted[c] \union {x}]
      /\ UNCHANGED <<listed, pc, kind, result, closure, unread, todo, current, handle, wrong,
                     archive, importer>>
      /\ damage < MaxDamage /\ damage' = damage + 1
  BY DEF Rot, Damage
<1>2. ExportsTypeOK'
  BY <1>1, ExportsAssumption DEF ExportsInv, ExportsTypeOK, States, importer
<1>3. ASSUME NEW c \in Calls PROVE CallInv(c)'
  <2>1. CallInv(c)
    BY DEF ExportsInv
  <2>2. /\ rotted'[c] = rotted[c] \union {x}
        /\ \A o \in Objects : object'[o] = IF o = x THEN "bad" ELSE object[o]
        /\ current[c] \subseteq Objects
    BY <1>1 DEF ExportsInv, ExportsTypeOK
  <2>3. CurrentInv(c)'
    BY <1>1, <2>1, <2>2 DEF CallInv, CurrentInv
  <2>4. HashedInv(c)'
    BY <1>1, <2>1, <2>2 DEF CallInv, HashedInv, OpenBad
  <2>5. WrongInv(c)'
    BY <1>1, <2>1, <2>2 DEF CallInv, WrongInv
  <2> QED
    BY <2>3, <2>4, <2>5 DEF CallInv
<1>4. ImportInv'
  BY <1>1, ImportSame DEF ExportsInv
<1> QED
  BY <1>2, <1>3, <1>4 DEF ExportsInv

LEMMA RotUnnamedKept ==
  ASSUME ExportsInv, NEW c \in Calls, RotUnnamed(c) PROVE ExportsInv'
<1>1. /\ handle[c] = "good" /\ handle' = [handle EXCEPT ![c] = "bad"]
      /\ rotted' = [rotted EXCEPT ![c] = @ \union current[c]]
      /\ UNCHANGED <<object, listed, pc, kind, result, closure, unread, todo, current, wrong,
                     archive, importer>>
      /\ damage < MaxDamage /\ damage' = damage + 1
  BY DEF RotUnnamed, Damage
<1>2. ExportsTypeOK'
  BY <1>1, ExportsAssumption DEF ExportsInv, ExportsTypeOK, importer
<1>3. ASSUME NEW d \in Calls PROVE CallInv(d)'
  <2>1. CallInv(d)
    BY DEF ExportsInv
  <2>2. \/ handle'[d] = handle[d] /\ rotted'[d] = rotted[d]
        \/ /\ handle[d] = "good" /\ handle'[d] = "bad"
           /\ rotted'[d] = rotted[d] \union current[d]
    BY <1>1 DEF ExportsInv, ExportsTypeOK
  <2>3. CurrentInv(d)'
    BY <1>1, <2>1, <2>2 DEF CallInv, CurrentInv
  <2>4. HashedInv(d)'
    BY <1>1, <2>1, <2>2 DEF CallInv, HashedInv, OpenBad
  <2>5. WrongInv(d)'
    BY <1>1, <2>1, <2>2 DEF CallInv, WrongInv
  <2> QED
    BY <2>3, <2>4, <2>5 DEF CallInv
<1>4. ImportInv'
  BY <1>1, ImportSame DEF ExportsInv
<1> QED
  BY <1>2, <1>3, <1>4 DEF ExportsInv

LEMMA RotArchiveKept ==
  ASSUME ExportsInv, NEW o \in Objects, RotArchive(o) PROVE ExportsInv'
<1>1. /\ archive' = [archive EXCEPT !.wrong = @ \union {o}]
      /\ UNCHANGED <<object, listed, pc, kind, result, call, importer>>
      /\ damage < MaxDamage /\ damage' = damage + 1
  BY DEF RotArchive, Damage
<1>2. ExportsTypeOK'
  BY <1>1, ExportsAssumption DEF ExportsInv, ExportsTypeOK, Archives, importer, call
<1>3. \A c \in Calls : CallInv(c)'
  BY <1>1
     DEF ExportsInv, CallInv, CurrentInv, HashedInv, WrongInv, OpenBad, call
<1>4. ImportInv'
  BY <1>1, ImportSame DEF ExportsInv
<1> QED
  BY <1>2, <1>3, <1>4 DEF ExportsInv

\* An entry that goes away leaves its bytes with the handles on it; their state is the
\* one the path had.
LEMMA EvictKept == ASSUME ExportsInv, NEW x \in Objects, Evict(x) PROVE ExportsInv'
<1>1. /\ object[x] # "absent" /\ object' = [object EXCEPT ![x] = "absent"]
      /\ handle' = [c \in Calls |->
                      IF handle[c] = "linked" /\ x \in current[c] THEN object[x]
                      ELSE handle[c]]
      /\ UNCHANGED <<listed, damage, pc, kind, result, closure, unread, todo, current, wrong,
                     rotted, archive, importer>>
  BY DEF Evict
<1>2. object[x] \in {"good", "bad"}
  BY <1>1 DEF ExportsInv, ExportsTypeOK, States
<1>3. ExportsTypeOK'
  BY <1>1, <1>2 DEF ExportsInv, ExportsTypeOK, States, importer
<1>4. ASSUME NEW c \in Calls PROVE CallInv(c)'
  <2>1. CallInv(c)
    BY DEF ExportsInv
  <2>2. /\ handle'[c] = IF handle[c] = "linked" /\ x \in current[c] THEN object[x]
                        ELSE handle[c]
        /\ \A o \in Objects : object'[o] = IF o = x THEN "absent" ELSE object[o]
        /\ current[c] \subseteq Objects
    BY <1>1 DEF ExportsInv, ExportsTypeOK
  <2>3. \A o \in current[c] : handle[c] # "none" => current[c] = {o}
    BY <2>1 DEF CallInv, CurrentInv, Busy, Reading
  <2>4. CurrentInv(c)'
    BY <1>1, <1>2, <2>1, <2>2 DEF CallInv, CurrentInv
  <2>5. HashedInv(c)'
    <3>1. ASSUME NEW o \in current[c], OpenBad(c, o)' PROVE OpenBad(c, o)
      BY <1>1, <1>2, <2>2, <2>3, <3>1 DEF OpenBad
    <3> QED
      BY <1>1, <2>1, <2>2, <3>1 DEF CallInv, HashedInv
  <2>6. WrongInv(c)'
    BY <1>1, <2>1 DEF CallInv, WrongInv
  <2> QED
    BY <2>4, <2>5, <2>6 DEF CallInv
<1>5. ImportInv'
  BY <1>1, ImportSame DEF ExportsInv
<1> QED
  BY <1>3, <1>4, <1>5 DEF ExportsInv

LEMMA RestoreKept == ASSUME ExportsInv, NEW x \in Objects, Restore(x) PROVE ExportsInv'
<1>1. /\ object[x] = "absent" /\ object' = [object EXCEPT ![x] = "good"]
      /\ UNCHANGED <<listed, damage, caller, importer>>
  BY DEF Restore
<1>2. ExportsTypeOK'
  BY <1>1 DEF ExportsInv, ExportsTypeOK, States, importer, caller, call
<1>3. ASSUME NEW c \in Calls PROVE CallInv(c)'
  <2>1. /\ \A o \in Objects : object'[o] = IF o = x THEN "good" ELSE object[o]
        /\ current[c] \subseteq Objects
    BY <1>1 DEF ExportsInv, ExportsTypeOK
  <2>2. CallInv(c)
    BY DEF ExportsInv
  <2> QED
    BY <1>1, <2>1, <2>2
       DEF CallInv, CurrentInv, HashedInv, WrongInv, OpenBad, caller, call
<1>4. ImportInv'
  BY <1>1, ImportSame DEF ExportsInv
<1> QED
  BY <1>2, <1>3, <1>4 DEF ExportsInv

LEMMA ListKept ==
  ASSUME ExportsInv, NEW pr \in Providers, List(pr) \/ Unlist(pr) PROVE ExportsInv'
<1>1. /\ listed' \subseteq Providers
      /\ UNCHANGED <<object, damage, caller, importer>>
  BY DEF List, Unlist, ExportsInv, ExportsTypeOK
<1>2. ImportInv'
  BY <1>1, ImportSame DEF ExportsInv
<1> QED
  BY <1>1, <1>2
     DEF ExportsInv, ExportsTypeOK, CallInv, CurrentInv, HashedInv, WrongInv, OpenBad,
         caller, call, importer

-----------------------------------------------------------------------------
(* The import.                                                             *)

\* The importing store is in order after a step of its own.
LEMMA TargetStep ==
  ASSUME ExportsInv, UNCHANGED <<object, listed, caller>>, damage' \in 0..MaxDamage,
         parcel' \subseteq Providers, torn' \subseteq Objects, landed' \subseteq Objects,
         target' \in [Objects -> States], harmed' \subseteq Objects, named' \subseteq Providers,
         ImportInv'
  PROVE  ExportsInv'
<1>1. ExportsTypeOK'
  BY DEF ExportsInv, ExportsTypeOK, caller, call
<1>2. \A c \in Calls : CallInv(c)'
  BY DEF ExportsInv, CallInv, CurrentInv, HashedInv, WrongInv, OpenBad, caller, call
<1> QED
  BY <1>1, <1>2 DEF ExportsInv

\* One object after the other is intact when store_reader returns of it.
LEMMA LandKept == ASSUME ExportsInv, NEW o \in Objects, Land(o) PROVE ExportsInv'
<1>1. /\ UNCHANGED <<store, caller, named>>
      /\ \/ /\ target' = [target EXCEPT ![o] = "good"] /\ landed' = landed \union {o}
            /\ harmed' = harmed \ {o} /\ UNCHANGED <<parcel, torn>>
         \/ parcel' = {} /\ torn' = {} /\ landed' = {} /\ UNCHANGED <<target, harmed>>
  BY DEF Land, Landed, Ended, Elsewhere
<1>2. /\ parcel' \subseteq Providers /\ torn' \subseteq Objects /\ landed' \subseteq Objects
      /\ target' \in [Objects -> States] /\ harmed' \subseteq Objects
      /\ \A x \in Objects : /\ target'[x] = target[x] \/ target'[x] = "good"
                            /\ x \in harmed /\ x \notin harmed' => target'[x] = "good"
      /\ landed' \subseteq landed \union {x \in Objects : target'[x] = "good"}
  BY <1>1 DEF ExportsInv, ExportsTypeOK, States
<1>3. ImportInv'
  <2>1. ObjectsOf(named') = ObjectsOf(named) /\ ObjectsOf(named) \subseteq Objects
    BY <1>1, ExportsAssumption DEF ObjectsOf, ExportsInv, ExportsTypeOK
  <2>2. /\ landed \subseteq Objects /\ ImportInv
    BY DEF ExportsInv, ExportsTypeOK
  <2>3. \A x \in landed' : target'[x] = "good" \/ x \in harmed'
    BY <1>2, <2>2 DEF ImportInv
  <2>4. \A x \in Objects : target'[x] = "bad" => x \in harmed'
    BY <1>2, <2>2 DEF ImportInv
  <2>5. ImportedIntact'
    BY <1>2, <2>1, <2>2 DEF ImportInv, ImportedIntact
  <2> QED
    BY <2>3, <2>4, <2>5 DEF ImportInv
<1> QED
  BY <1>1, <1>2, <1>3, TargetStep DEF store, ExportsInv, ExportsTypeOK

\* A manifest is named when store_reader has returned of every object of the parcel.
LEMMA NameKept == ASSUME ExportsInv, Stage \/ Name PROVE ExportsInv'
<1>1. /\ UNCHANGED <<store, caller, target, harmed>>
      /\ parcel' \subseteq Providers /\ named' \subseteq Providers
      /\ torn' \subseteq torn /\ landed' \subseteq landed
      /\ \A pr \in named' : pr \in named \/ Contents[pr] \subseteq landed
  BY DEF Stage, Name, Ended, Elsewhere, ExportsInv, ExportsTypeOK, Archives, ObjectsOf
<1>2. ImportInv'
  BY <1>1 DEF ExportsInv, ImportInv, ImportedIntact, ObjectsOf
<1> QED
  BY <1>1, <1>2, TargetStep DEF store, ExportsInv, ExportsTypeOK

\* An import that ends between the quarantine and the publication leaves nothing in the
\* place of what the disk had damaged.
LEMMA FailImportKept == ASSUME ExportsInv, FailImport PROVE ExportsInv'
<1>1. /\ UNCHANGED <<store, caller, harmed, named>>
      /\ parcel' = {} /\ torn' = {} /\ landed' = {}
      /\ \/ target' = target
         \/ \E o \in ObjectsOf(parcel) : target[o] = "bad" /\ target' = [target EXCEPT ![o] = "absent"]
  BY DEF FailImport, Ended, Elsewhere
<1>2. /\ target' \in [Objects -> States]
      /\ \A x \in Objects : target'[x] = target[x] \/ (target[x] = "bad" /\ target'[x] = "absent")
  BY <1>1 DEF ExportsInv, ExportsTypeOK, States
<1>3. ImportInv'
  <2>1. ObjectsOf(named') = ObjectsOf(named) /\ ObjectsOf(named) \subseteq Objects
    BY <1>1, ExportsAssumption DEF ObjectsOf, ExportsInv, ExportsTypeOK
  <2> QED
    BY <1>1, <1>2, <2>1 DEF ExportsInv, ImportInv, ImportedIntact
<1> QED
  BY <1>1, <1>2, <1>3, TargetStep DEF store, ExportsInv, ExportsTypeOK

LEMMA RotImportKept ==
  ASSUME ExportsInv, NEW o \in Objects, RotStaged(o) \/ RotTarget(o) PROVE ExportsInv'
<1>1. /\ UNCHANGED <<object, listed, caller, parcel, landed, named>>
      /\ damage < MaxDamage /\ damage' = damage + 1
      /\ \/ torn' = torn \union {o} /\ UNCHANGED <<target, harmed>>
         \/ /\ target' = [target EXCEPT ![o] = "bad"] /\ harmed' = harmed \union {o}
            /\ UNCHANGED torn
  BY DEF RotStaged, RotTarget, Damage
<1>2. /\ torn' \subseteq Objects /\ target' \in [Objects -> States] /\ harmed' \subseteq Objects
      /\ harmed \subseteq harmed'
      /\ \A x \in Objects : target'[x] = target[x] \/ x \in harmed'
  BY <1>1 DEF ExportsInv, ExportsTypeOK, States
<1>3. ImportInv'
  <2>1. ObjectsOf(named') = ObjectsOf(named) /\ ObjectsOf(named) \subseteq Objects
    BY <1>1, ExportsAssumption DEF ObjectsOf, ExportsInv, ExportsTypeOK
  <2> QED
    BY <1>1, <1>2, <2>1 DEF ExportsInv, ExportsTypeOK, ImportInv, ImportedIntact
<1>4. damage' \in 0..MaxDamage
  BY <1>1, ExportsAssumption DEF ExportsInv, ExportsTypeOK
<1> QED
  BY <1>1, <1>2, <1>3, <1>4, TargetStep DEF ExportsInv, ExportsTypeOK

-----------------------------------------------------------------------------
(* The theorems.                                                           *)

LEMMA ExportsNext == ExportsInv /\ [Next]_vars => ExportsInv'
<1> SUFFICES ASSUME ExportsInv, [Next]_vars PROVE ExportsInv'
  OBVIOUS
<1>1. CASE UNCHANGED vars
  <2>1. ImportInv'
    BY <1>1, ImportSame DEF ExportsInv, vars
  <2> QED
    BY <1>1, <2>1
       DEF ExportsInv, ExportsTypeOK, CallInv, CurrentInv, HashedInv, WrongInv, OpenBad,
           vars, store, caller, call, importer
<1>2. ASSUME NEW c \in Calls, Work(c) PROVE ExportsInv'
  BY <1>2, LoadCall, PickCall, HashPathCall, OpenCall, HashHandleCall, CopyCall, FinishCall
     DEF Work
<1>3. CASE Import \/ FailImport
  BY <1>3, LandKept, NameKept, FailImportKept DEF Import
<1> QED
  BY <1>1, <1>2, <1>3, BeginCall, FailCall, RotUnnamedKept, RotKept, RotArchiveKept, EvictKept,
     RestoreKept, ListKept, RotImportKept DEF Next

LEMMA ExportsInvariant == Spec => []ExportsInv
  BY ExportsInit, ExportsNext, PTL DEF Spec

\* Types.
THEOREM ExportsTypes == Spec => []ExportsTypeOK
<1>1. ExportsInv => ExportsTypeOK
  BY DEF ExportsInv
<1> QED
  BY <1>1, ExportsInvariant, PTL

\* Every call hands out what it hashed: wrong bytes in an archive or with a writer were
\* damaged after this call had hashed them, and a call that copies reports them.
THEOREM ExportsVerified == Spec => []OnlyVerifiedLeaves
<1>1. ExportsInv => OnlyVerifiedLeaves
  <2> SUFFICES ASSUME ExportsInv, NEW c \in Calls, wrong[c] # {}
               PROVE  /\ kind[c] \in Private \/ wrong[c] \subseteq rotted[c]
                      /\ result[c] = "ok" => kind[c] = "bundle"
    BY DEF OnlyVerifiedLeaves
  <2> QED
    BY DEF ExportsInv, CallInv, WrongInv
<1> QED
  BY <1>1, ExportsInvariant, PTL

\* After every import, whole, failed or under way, each object of each manifest in the
\* importing store is intact or has been damaged since an import hashed it: nothing wrong
\* comes from the archive, from the unpacked copies or from what the store held before.
THEOREM ExportsImported == Spec => []ImportedIntact
<1>1. ExportsInv => ImportedIntact
  BY DEF ExportsInv, ImportInv
<1> QED
  BY <1>1, ExportsInvariant, PTL

-----------------------------------------------------------------------------
(* A store that is healed.                                                 *)

Healed == (\A o \in Objects : object[o] = "good") /\ listed = Providers

\* The call still reads a damaged file that has lost its name.
Doomed(c) == handle[c] = "bad"

Ends(c) == pc[c] # "idle" /\ pc'[c] = "idle"

\* Without disturbances a healed store stays so, whatever its users do to it.
LEMMA HealedStays ==
  ASSUME ExportsTypeOK, Healed, [Next]_vars, [~Disturbance]_vars
  PROVE  Healed'
<1>1. ASSUME NEW o \in Objects,
             Rot(o) \/ RotArchive(o) \/ RotStaged(o) \/ RotTarget(o) \/ Evict(o)
      PROVE  UNCHANGED vars
  BY <1>1 DEF Disturbance, Healed, Evict
<1>2. ASSUME NEW o \in Objects, Restore(o) PROVE FALSE
  BY <1>2 DEF Restore, Healed
<1>3. ASSUME NEW pr \in Providers, List(pr) \/ Unlist(pr) PROVE UNCHANGED vars
  BY <1>3 DEF Disturbance, Healed, List
<1>4. ASSUME NEW c \in Calls, Begin(c) \/ Work(c) \/ Fail(c) \/ RotUnnamed(c)
      PROVE  UNCHANGED <<object, listed>>
  BY <1>4 DEF Begin, Work, LoadManifest, Pick, HashPath, OpenObject, HashHandle, Copy, Finish, Fail,
              RotUnnamed, Quiet, store
<1>5. CASE Import \/ FailImport
  BY <1>5 DEF Import, Stage, Land, Name, FailImport, Elsewhere, store, Healed
<1> QED
  BY <1>1, <1>2, <1>3, <1>4, <1>5 DEF Next, Healed, vars, store

\* In it a call fails only over a file it opened earlier, and opens no damaged one.
LEMMA HealedStep ==
  ASSUME ExportsInv, Healed, [Next]_vars, [~Disturbance]_vars, NEW c \in Calls
  PROVE  /\ Doomed(c)' => Doomed(c)
         /\ Ends(c) => result'[c] = "ok" \/ (Doomed(c) /\ ~Doomed(c)')
<1> USE DEF Doomed, Ends
<1>1. CASE UNCHANGED vars
  BY <1>1 DEF vars, caller, call
<1>2. ASSUME NEW d \in Calls, ~UNCHANGED vars, Begin(d) \/ Work(d) \/ Fail(d) \/ RotUnnamed(d), d # c
      PROVE  handle'[c] = handle[c] /\ pc'[c] = pc[c]
  BY <1>2 DEF Begin, Work, LoadManifest, Pick, HashPath, OpenObject, HashHandle, Copy, Finish, Fail,
              RotUnnamed, Quiet, Hashed, Goto, Refuse, Stop, Leave, ExportsInv, ExportsTypeOK
<1>3. ASSUME ~UNCHANGED vars, Begin(c) \/ Fail(c) \/ RotUnnamed(c)
      PROVE  handle'[c] = handle[c] /\ ~Ends(c)
  BY <1>3 DEF Begin, Disturbance
<1>4. CASE Work(c)
  <2>1. /\ handle \in [Calls -> {"none", "linked", "good", "bad"}]
        /\ pc \in [Calls -> {"idle", "pick", "hash", "open", "rehash", "copy"}]
        /\ result \in [Calls -> {"none", "ok", "refused", "failed"}]
        /\ unread[c] \subseteq Providers /\ current[c] \subseteq Objects
    BY DEF ExportsInv, ExportsTypeOK
  <2>2. /\ pc[c] \in Reading => handle[c] # "none" /\ \E o \in Objects : current[c] = {o}
    BY DEF ExportsInv, CallInv, CurrentInv, Busy, Reading
  <2>3. pc[c] \in Reading => Bytes(c) = IF handle[c] = "bad" THEN "bad" ELSE "good"
    BY <2>1, <2>2, BytesOf DEF Healed
  <2>4. CASE LoadManifest(c) \/ Pick(c) \/ HashPath(c) \/ OpenObject(c)
    BY <2>1, <2>4 DEF LoadManifest, Pick, HashPath, OpenObject, Hashed, Goto, Refuse, Stop, Leave, Healed
  <2>5. CASE HashHandle(c)
    BY <2>1, <2>3, <2>5 DEF HashHandle, Reading, Hashed, Goto, Refuse, Stop, Leave
  <2>6. CASE Copy(c)
    BY <2>1, <2>3, <2>6 DEF Copy, Reading, Goto, Leave
  <2>7. CASE Finish(c)
    BY <2>1, <2>7 DEF Finish, Leave
  <2> QED
    BY <1>4, <2>4, <2>5, <2>6, <2>7 DEF Work
<1>5. ASSUME NEW o \in Objects, ~UNCHANGED vars,
             \/ Rot(o) \/ RotArchive(o) \/ RotStaged(o) \/ RotTarget(o)
             \/ Evict(o) \/ Restore(o)
      PROVE  FALSE
  BY <1>5 DEF Disturbance, Healed, Evict, Restore
<1>6. ASSUME NEW pr \in Providers, List(pr) \/ Unlist(pr)
      PROVE  UNCHANGED caller
  BY <1>6 DEF List, Unlist
<1>7. CASE Import \/ FailImport
  BY <1>7 DEF Import, Stage, Land, Name, FailImport, Elsewhere, caller, call
<1> QED
  BY <1>1, <1>2, <1>3, <1>4, <1>5, <1>6, <1>7 DEF Next, caller, call

\* One caller: its calls succeed, the one it is in perhaps excepted.
LEMMA CallerSettles ==
  ASSUME NEW c \in Calls
  PROVE  Spec /\ Calm /\ []<>Healed => <>[][Ends(c) => result'[c] = "ok"]_vars
<1>1. ExportsInv /\ Healed /\ [Next]_vars /\ [~Disturbance]_vars
      => /\ Healed'
         /\ Doomed(c)' => Doomed(c)
         /\ [Ends(c) => result'[c] = "ok"]_vars \/ (Doomed(c) /\ ~Doomed(c)')
  BY HealedStays, HealedStep DEF ExportsInv
<1> QED
  BY <1>1, ExportsInvariant, PTL DEF Spec, Calm

\* The safety half of ExportsSettle, without fairness: once nothing is damaged and
\* nothing fails, and the store's users have healed it, every lockless call that ends
\* has succeeded, but for the one over a file its caller had opened before.
THEOREM HealedStoreServes ==
  Spec /\ Calm /\ []<>Healed
  => \A c \in Calls :
       <>[][pc[c] # "idle" /\ pc'[c] = "idle" => result'[c] = "ok"]_vars
  BY CallerSettles DEF Ends

=================================================================================
