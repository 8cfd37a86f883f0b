-------------------------- MODULE InviteAuthProofs --------------------------
(***************************************************************************)
(* The inductive invariant IInv of InviteAuth, for any sets of Call-IDs    *)
(* and answers, any number of INVITEs and any digestLimit, and what        *)
(* follows from it.                                                        *)
(***************************************************************************)
EXTENDS InviteAuth, SequenceTheorems, TLAPS

USE SMTT(30)
USE DEF cacheVars, tableVars, stateVars, requestVars, NoInvite, NoCred, Goto

(* t is s with another entry o of the same Call-ID.                        *)
Patched(s, o, t) ==
  /\ t \in Seq(Entries) /\ Len(t) = Len(s)
  /\ \A p \in 1 .. Len(s) : t[p].callID = s[p].callID
  /\ \A p \in 1 .. Len(s) : p # o => t[p] = s[p]

(* Setting a field of an entry.                                            *)
Resolve(s, o) == [s EXCEPT ![o].authResolved = TRUE]
Reset(s, o) == [s EXCEPT ![o].authResolved = FALSE]
Send(s, o, i) == [s EXCEPT ![o].nonce = i]

(* Store(true) in authResolved of one entry.                               *)
LEMMA Resolved ==
  ASSUME NEW s \in Seq(Entries), NEW o \in 1 .. Len(s)
  PROVE  /\ Patched(s, o, Resolve(s, o))
         /\ \A p \in 1 .. Len(s) : Resolve(s, o)[p].nonce = s[p].nonce
         /\ Resolve(s, o)[o].authResolved = TRUE
  <1> DEFINE e == [s[o] EXCEPT !.authResolved = TRUE]
  <1>1. s[o] \in Entries
    BY Zenon, ElementOfSeq
  <1>2. e \in Entries
    BY <1>1, Zenon DEF Entries
  <1>3. e.callID = s[o].callID /\ e.nonce = s[o].nonce /\ e.authResolved = TRUE
    BY Zenon, <1>1 DEF Entries
  <1> HIDE DEF e
  <1>4. Resolve(s, o) = [s EXCEPT ![o] = e]
    BY Zenon DEF Resolve, e
  <1>5. /\ Resolve(s, o) \in Seq(Entries) /\ Len(Resolve(s, o)) = Len(s)
        /\ \A p \in 1 .. Len(s) : p # o => Resolve(s, o)[p] = s[p]
        /\ Resolve(s, o)[o] = e
    BY <1>2, <1>4, ExceptSeq
  <1> QED BY Zenon, <1>3, <1>5 DEF Patched

(* Store(false) in authResolved of one entry.                              *)
LEMMA HasReset ==
  ASSUME NEW s \in Seq(Entries), NEW o \in 1 .. Len(s)
  PROVE  /\ Patched(s, o, Reset(s, o))
         /\ \A p \in 1 .. Len(s) : Reset(s, o)[p].nonce = s[p].nonce
         /\ Reset(s, o)[o].authResolved = FALSE
  <1> DEFINE e == [s[o] EXCEPT !.authResolved = FALSE]
  <1>1. s[o] \in Entries
    BY Zenon, ElementOfSeq
  <1>2. e \in Entries
    BY <1>1, Zenon DEF Entries
  <1>3. e.callID = s[o].callID /\ e.nonce = s[o].nonce /\ e.authResolved = FALSE
    BY Zenon, <1>1 DEF Entries
  <1> HIDE DEF e
  <1>4. Reset(s, o) = [s EXCEPT ![o] = e]
    BY Zenon DEF Reset, e
  <1>5. /\ Reset(s, o) \in Seq(Entries) /\ Len(Reset(s, o)) = Len(s)
        /\ \A p \in 1 .. Len(s) : p # o => Reset(s, o)[p] = s[p]
        /\ Reset(s, o)[o] = e
    BY <1>2, <1>4, ExceptSeq
  <1> QED BY Zenon, <1>3, <1>5 DEF Patched

(* A challenge written into one entry.                                     *)
LEMMA Sent ==
  ASSUME NEW s \in Seq(Entries), NEW o \in 1 .. Len(s), NEW i \in Invites
  PROVE  /\ Patched(s, o, Send(s, o, i))
         /\ \A p \in 1 .. Len(s) : Send(s, o, i)[p].authResolved = s[p].authResolved
         /\ Send(s, o, i)[o].nonce = i
  <1> DEFINE e == [s[o] EXCEPT !.nonce = i]
  <1>1. s[o] \in Entries
    BY Zenon, ElementOfSeq
  <1>2. e \in Entries /\ e.callID = s[o].callID /\ e.authResolved = s[o].authResolved /\ e.nonce = i
    BY Zenon, <1>1 DEF Entries
  <1> HIDE DEF e
  <1>3. Send(s, o, i) = [s EXCEPT ![o] = e]
    BY Zenon DEF Send, e
  <1> QED BY <1>2, <1>3, ExceptSeq DEF Patched

(* What TableSound says of a table t of entries of s.                      *)
Sound(s, t) ==
  /\ s \in Seq(Entries)
  /\ t \in Seq(1 .. Len(s))
  /\ Len(t) <= DigestLimit
  /\ \A m, n \in 1 .. Len(t) : s[t[m]].callID = s[t[n]].callID => m = n

(* The table the run checks is sound.                                      *)
LEMMA TableIsSound == TableSound => Sound(objs, inProgress)
  <1> SUFFICES ASSUME TableSound PROVE Sound(objs, inProgress)
    OBVIOUS
  <1>1. objs \in Seq(Entries) /\ inProgress \in Seq(1 .. Len(objs))
    BY Zenon DEF TableSound, TypeOK
  <1>2. DOMAIN inProgress = 1 .. Len(inProgress)
    BY Zenon, <1>1, LenProperties
  <1> QED BY Zenon, <1>1, <1>2 DEF TableSound, Sound

(* Entries that keep their Call-IDs keep the table sound.                  *)
LEMMA SoundFrame ==
  ASSUME NEW s, NEW t, Sound(s, t), NEW u \in Seq(Entries), Len(u) = Len(s),
         \A p \in 1 .. Len(s) : u[p].callID = s[p].callID
  PROVE  Sound(u, t)
  <1>1. t \in Seq(1 .. Len(s))
    BY Zenon DEF Sound
  <1>2. \A m \in 1 .. Len(t) : t[m] \in 1 .. Len(s)
    BY Zenon, <1>1, ElementOfSeq
  <1>3. \A m \in 1 .. Len(t) : u[t[m]].callID = s[t[m]].callID
    BY <1>2, Zenon
  <1>4. t \in Seq(1 .. Len(u))
    BY <1>1, Zenon
  <1> QED BY <1>3, <1>4, Zenon DEF Sound

(* What getInvite(k) gives: the entry is of the Call-ID asked for, the     *)
(* others are as they were, and the table stays sound.                     *)
Looked(k, got) ==
  /\ Sound(got.objs, got.table) /\ got.objs \in Seq(Entries)
  /\ got.id \in 1 .. Len(got.objs) /\ got.objs[got.id].callID = k
  /\ Len(objs) <= Len(got.objs)
  /\ \A o \in 1 .. Len(objs) : got.objs[o] = objs[o]
  /\ \A o \in 1 .. Len(got.objs) : o > Len(objs) =>
       /\ o = got.id
       /\ got.objs[o].nonce = NoInvite /\ got.objs[o].authResolved = FALSE

(* getInvite finds the entry of the Call-ID, or appends one and evicts the *)
(* oldest ones beyond the limit.                                           *)
LEMMA GetInvite ==
  ASSUME TableSound, NEW k \in CallIDs
  PROVE  Looked(k, getInvite(k))
  <1> SUFFICES ASSUME NEW got, got = getInvite(k) PROVE Looked(k, got)
    OBVIOUS
  <1> DEFINE found == {n \in DOMAIN inProgress : objs[inProgress[n]].callID = k}
             fresh == Len(objs) + 1
             entry == [callID |-> k, nonce |-> NoInvite, authResolved |-> FALSE]
             new == Append(objs, entry)
             kept == IF Len(inProgress) >= DigestLimit
                       THEN Tail(inProgress) ELSE inProgress
             old == inProgress[CHOOSE n \in found : \A m \in found : n <= m]
  <1>0. Sound(objs, inProgress)
    BY Zenon, TableIsSound
  <1>a. objs \in Seq(Entries) /\ inProgress \in Seq(1 .. Len(objs))
    BY Zenon, <1>0 DEF Sound
  <1>b. /\ Len(objs) \in Nat /\ Len(inProgress) \in Nat
        /\ DOMAIN inProgress = 1 .. Len(inProgress)
        /\ \A n \in 1 .. Len(inProgress) : inProgress[n] \in 1 .. Len(objs)
    BY Zenon, <1>a, LenProperties, ElementOfSeq
  <1>c. /\ Len(inProgress) <= DigestLimit /\ Len(inProgress) \in Nat
        /\ DigestLimit \in Nat \ {0}
    BY Zenon, <1>0, <1>b, BoundsAssumption DEF Sound
  <1> HIDE DEF found, entry, new, kept, old
  <1>1. CASE found # {}
    <2>1. PICK n \in found : TRUE
      BY Zenon, <1>1
    <2>2. n \in 1 .. Len(inProgress) /\ objs[inProgress[n]].callID = k
      BY Zenon, <1>b DEF found
    <2>3. \A m \in found : m = n
      BY <1>0, <1>b, <2>2, Zenon DEF Sound, found
    <2>4. \A m \in found : n <= m
      BY <2>2, <2>3
    <2>5. (CHOOSE l \in found : \A m \in found : l <= m) \in found
      BY Zenon, <2>4
    <2>6. old \in 1 .. Len(objs) /\ objs[old].callID = k
      BY <1>b, <2>5, Zenon DEF old, found
    <2>7. got = [id |-> old, objs |-> objs, table |-> inProgress]
      BY <1>1, Zenon DEF getInvite, old, found
    <2>8. got.id = old /\ got.objs = objs /\ got.table = inProgress
      BY <2>7
    <2> QED BY <1>0, <1>a, <1>b, <2>6, <2>8 DEF Looked
  <1>2. CASE found = {}
    <2>1. entry \in Entries
      BY Zenon DEF Entries, entry
    <2>2. /\ new \in Seq(Entries) /\ Len(new) = fresh
          /\ \A o \in 1 .. Len(objs) : new[o] = objs[o]
          /\ new[fresh] = entry
      BY <1>a, <2>1, AppendProperties DEF new
    <2>r. got = [id |-> fresh, objs |-> new, table |-> Append(kept, fresh)]
      BY <1>2, Zenon DEF getInvite, found, new, kept, entry
    <2>3. got.id = fresh /\ got.objs = new /\ got.table = Append(kept, fresh)
      BY <2>r
    <2>4. /\ kept \in Seq(1 .. Len(objs)) /\ Len(kept) \in Nat
          /\ Len(kept) < DigestLimit
          /\ \E d \in {0, 1} : /\ d + Len(kept) <= Len(inProgress)
                               /\ \A m \in 1 .. Len(kept) : kept[m] = inProgress[m + d]
      <3>1. CASE Len(inProgress) >= DigestLimit
        <4>0. Len(inProgress) = DigestLimit /\ DigestLimit # 0
          BY <1>c, <3>1
        <4>1. inProgress # <<>>
          BY Zenon, <4>0, EmptySeq
        <4>2. kept = Tail(inProgress)
          BY Zenon, <3>1 DEF kept
        <4>3. /\ kept \in Seq(1 .. Len(objs)) /\ Len(kept) = Len(inProgress) - 1
              /\ \A m \in 1 .. Len(kept) : kept[m] = inProgress[m + 1]
          BY Zenon, <1>a, <4>1, <4>2, HeadTailProperties
        <4>4. /\ Len(kept) \in Nat /\ Len(kept) < DigestLimit
              /\ 1 + Len(kept) <= Len(inProgress)
          BY <1>c, <4>0, <4>3
        <4> QED BY Zenon, <4>3, <4>4
      <3>2. CASE ~(Len(inProgress) >= DigestLimit)
        <4>1. kept = inProgress
          BY Zenon, <3>2 DEF kept
        <4>2. Len(kept) < DigestLimit /\ 0 + Len(kept) <= Len(inProgress)
          BY <1>c, <3>2, <4>1
        <4>3. \A m \in 1 .. Len(kept) : kept[m] = inProgress[m + 0]
          BY <1>b, <4>1
        <4> QED BY Zenon, <1>a, <1>b, <4>1, <4>2, <4>3
      <3> QED BY <3>1, <3>2, Zenon
    <2>5. kept \in Seq(1 .. fresh) /\ fresh \in 1 .. fresh
      BY <1>b, <2>4, SeqMonotonic
    <2>6. /\ got.table \in Seq(1 .. fresh)
          /\ Len(got.table) = Len(kept) + 1
          /\ \A m \in 1 .. Len(kept) : got.table[m] = kept[m]
          /\ got.table[Len(kept) + 1] = fresh
      BY <2>3, <2>5, AppendProperties
    <2>d. PICK d \in {0, 1} : /\ d + Len(kept) <= Len(inProgress)
                              /\ \A m \in 1 .. Len(kept) : kept[m] = inProgress[m + d]
      BY <2>4, Zenon
    <2>7. ASSUME NEW m \in 1 .. Len(kept)
          PROVE  /\ got.table[m] \in 1 .. Len(objs)
                 /\ objs[got.table[m]].callID # k
                 /\ m + d \in 1 .. Len(inProgress)
                 /\ got.table[m] = inProgress[m + d]
      <3>1. m + d \in DOMAIN inProgress /\ got.table[m] = inProgress[m + d]
        <4>1. m + d \in 1 .. Len(inProgress)
          BY <1>b, <2>4, <2>d
        <4> QED BY Zenon, <1>b, <2>6, <2>d, <4>1
      <3>2. objs[inProgress[m + d]].callID # k
        BY <1>2, <3>1, Zenon DEF found
      <3> QED BY Zenon, <1>b, <3>1, <3>2
    <2>8. ASSUME NEW m \in 1 .. Len(got.table), NEW n \in 1 .. Len(got.table),
                 new[got.table[m]].callID = new[got.table[n]].callID
          PROVE  m = n
      <3>0. new[fresh].callID = k
        BY <2>2 DEF entry
      <3>1. ASSUME NEW l \in 1 .. Len(got.table), l # Len(kept) + 1
            PROVE  /\ l \in 1 .. Len(kept)
                   /\ new[got.table[l]].callID # k
                   /\ new[got.table[l]] = objs[inProgress[l + d]]
                   /\ l + d \in 1 .. Len(inProgress)
        <4>1. l \in 1 .. Len(kept)
          BY <2>4, <2>6, <3>1
        <4>2. new[got.table[l]] = objs[got.table[l]]
          BY <2>2, <2>7, <4>1, Zenon
        <4> QED BY <2>7, <4>1, <4>2, Zenon
      <3>2. CASE m = Len(kept) + 1 /\ n # Len(kept) + 1
        <4>1. new[got.table[m]].callID = k
          BY <2>6, <3>0, <3>2, Zenon
        <4>2. new[got.table[n]].callID # k
          BY <3>1, <3>2, Zenon
        <4> QED BY <2>8, <4>1, <4>2, Zenon
      <3>3. CASE m # Len(kept) + 1 /\ n = Len(kept) + 1
        <4>1. new[got.table[n]].callID = k
          BY <2>6, <3>0, <3>3, Zenon
        <4>2. new[got.table[m]].callID # k
          BY <3>1, <3>3, Zenon
        <4> QED BY <2>8, <4>1, <4>2, Zenon
      <3>4. CASE m # Len(kept) + 1 /\ n # Len(kept) + 1
        <4>1. /\ objs[inProgress[m + d]].callID = objs[inProgress[n + d]].callID
              /\ m + d \in 1 .. Len(inProgress) /\ n + d \in 1 .. Len(inProgress)
          <5>1. /\ new[got.table[m]] = objs[inProgress[m + d]]
                /\ m + d \in 1 .. Len(inProgress)
            BY <3>1, <3>4, Zenon
          <5>2. /\ new[got.table[n]] = objs[inProgress[n + d]]
                /\ n + d \in 1 .. Len(inProgress)
            BY <3>1, <3>4, Zenon
          <5> QED BY <2>8, <5>1, <5>2, Zenon
        <4>2. m + d = n + d
          BY <1>0, <4>1, Zenon DEF Sound
        <4> QED BY <2>4, <2>6, <4>2
      <3> QED BY Zenon, <3>2, <3>3, <3>4
    <2>9. Sound(got.objs, got.table)
      <3>1. Len(got.table) <= DigestLimit
        BY <2>4, <2>6, BoundsAssumption
      <3> QED BY <2>2, <2>3, <2>6, <2>8, <3>1, Zenon DEF Sound
    <2>10. entry.callID = k /\ entry.nonce = NoInvite /\ entry.authResolved = FALSE
      BY Zenon DEF entry
    <2> QED BY <1>b, <2>2, <2>3, <2>9, <2>10 DEF Looked
  <1> QED BY <1>1, <1>2, Zenon

(* The entries it gives are the old ones, and at most one new.             *)
Extended(s) ==
  /\ \A o \in 1 .. Len(objs) : o \in 1 .. Len(s) /\ s[o] = objs[o]
  /\ \A o \in 1 .. Len(s) : \/ o \in 1 .. Len(objs) /\ s[o] = objs[o]
                            \/ s[o].nonce = NoInvite /\ s[o].authResolved = FALSE

(* getInvite changes no entry that was there.                              *)
LEMMA LookedAt ==
  ASSUME NEW k, NEW got, Looked(k, got), Len(objs) \in Nat, Len(got.objs) \in Nat
  PROVE  Extended(got.objs)
  <1>1. Len(objs) <= Len(got.objs)
    BY Zenon DEF Looked
  <1>2. \A o \in 1 .. Len(objs) : o \in 1 .. Len(got.objs)
    BY <1>1
  <1>3. \A o \in 1 .. Len(got.objs) : o \in 1 .. Len(objs) \/ o > Len(objs)
    OBVIOUS
  <1> QED BY <1>2, <1>3, Zenon DEF Looked, Extended

-----------------------------------------------------------------------------
(* An INVITE that came in has a Call-ID.                                   *)
LEMMA Known ==
  ASSUME IInv, NEW i \in Invites, pc[i] # "new"
  PROVE  i \in 1 .. Len(callID) /\ callID[i] \in CallIDs
  <1>1. callID \in Seq(CallIDs) /\ Len(callID) \in Nat /\ InviteOK(i) /\ i \in Nat
        /\ i >= 1
    BY LenProperties, BoundsAssumption DEF IInv, TableSound, TypeOK, InviteInv, Invites
  <1>2. i <= Len(callID)
    BY <1>1 DEF InviteOK
  <1> QED BY <1>1, <1>2, ElementOfSeq

(* An INVITE a step leaves alone, in a table whose entries keep their      *)
(* Call-IDs.                                                               *)
LEMMA Bystander ==
  ASSUME NEW j \in Invites, InviteOK(j), UNCHANGED <<callID, cred>>,
         pc'[j] = pc[j], secret'[j] = secret[j], holds'[j] = holds[j],
         finalized'[j] = finalized[j], j \in timers' <=> j \in timers,
         holds[j] # 0 => objs'[holds[j]].callID = objs[holds[j]].callID
  PROVE  InviteOK(j)'
  BY Zenon DEF InviteOK

(* A step of i that leaves the table and the timers alone.                 *)
LEMMA QuietStep ==
  ASSUME IInv, NEW i \in Invites, TypeOK', InviteOK(i)',
         UNCHANGED <<callID, cred, holds, objs, inProgress, timers>>,
         \A j \in Invites \ {i} : /\ pc'[j] = pc[j] /\ secret'[j] = secret[j]
                                  /\ finalized'[j] = finalized[j],
         holds[i] # 0 => pc'[i] # "done" \/ finalized'[i] # 0
  PROVE  IInv'
  <1>0. TableSound /\ InviteInv /\ NonceInv /\ SettleInv
    BY Zenon DEF IInv
  <1>1. TableSound'
    BY <1>0, Zenon DEF TableSound
  <1>2. InviteInv'
    <2> SUFFICES ASSUME NEW j \in Invites PROVE InviteOK(j)'
      BY Zenon DEF InviteInv
    <2>1. CASE j = i
      BY Zenon, <2>1
    <2>2. CASE j # i
      <3>1. InviteOK(j)
        BY Zenon, <1>0 DEF InviteInv
      <3> QED BY <2>2, <3>1, Bystander, Zenon
    <2> QED BY Zenon, <2>1, <2>2
  <1>3. NonceInv'
    BY <1>0, Zenon DEF NonceInv
  <1>4. ASSUME NEW o, NEW j \in Invites, o # 0, Busy(o, j)
        PROVE  Busy(o, j)'
    <2>1. CASE j = i
      BY <1>4, <2>1, Zenon DEF Busy
    <2>2. CASE j # i
      BY <1>4, <2>2, Zenon DEF Busy
    <2> QED BY Zenon, <2>1, <2>2
  <1>5. SettleInv'
    <2>1. ASSUME NEW o \in DOMAIN objs', objs'[o].authResolved
          PROVE  \E j \in Invites : Busy(o, j)'
      <3>1. o \in DOMAIN objs /\ objs[o].authResolved
        BY Zenon, <2>1
      <3>2. o # 0
        BY <1>0, <3>1, LenProperties DEF TableSound, TypeOK
      <3>3. PICK j \in Invites : Busy(o, j)
        BY <1>0, <3>1, Zenon DEF SettleInv
      <3> QED BY Zenon, <1>4, <3>2, <3>3
    <2>2. ASSUME NEW l \in Invites, holds'[l] # 0
          PROVE  \E j \in Invites : \/ Busy(holds[l], j)'
                                    \/ (holds[j] = holds[l] /\ j \in timers)'
      <3>1. holds[l] # 0
        BY Zenon, <2>2
      <3>2. PICK j \in Invites : Busy(holds[l], j) \/ (holds[j] = holds[l] /\ j \in timers)
        BY <1>0, <3>1, Zenon DEF SettleInv
      <3> QED BY <1>4, <3>1, <3>2, Zenon
    <2> QED BY <2>1, <2>2, Zenon DEF SettleInv, Busy
  <1> QED BY Zenon, <1>1, <1>2, <1>3, <1>5 DEF IInv

(* A function keeps its type when one of its values is replaced.           *)
LEMMA Assign ==
  ASSUME NEW S, NEW T, NEW f \in [S -> T], NEW x, NEW v \in T
  PROVE  [f EXCEPT ![x] = v] \in [S -> T]
  BY Zenon

(* The types of what such a step assigns, and what it leaves alone.        *)
StepTypes ==
  /\ pc \in [Invites -> PCs] /\ secret \in [Invites -> BOOLEAN]
  /\ status \in [Invites -> {"none", "incoming", "error", "ended"}]
  /\ finalized \in [Invites -> Nat]
  /\ provisional \in [CallIDs -> Invites \cup {NoInvite}]
  /\ rejected \subseteq CallIDs
  /\ registered \in [Invites -> Invites \cup {NoInvite}]

Alone(i) ==
  /\ UNCHANGED <<callID, cred, holds, objs, inProgress, timers>>
  /\ \A j \in Invites \ {i} : /\ pc'[j] = pc[j] /\ secret'[j] = secret[j]
                              /\ finalized'[j] = finalized[j]
  /\ holds[i] # 0 => pc'[i] # "done" \/ finalized'[i] # 0

(* A step of one INVITE that touches neither entries nor tags.             *)
LEMMA Quiet ==
  ASSUME IInv, NEW i \in Invites, StepTypes', Alone(i), InviteOK(i)',
         UNCHANGED <<tag, superseded>>
  PROVE  IInv'
  <1>1. TypeOK'
    BY Zenon DEF IInv, TableSound, TypeOK, StepTypes, Alone
  <1> QED BY <1>1, QuietStep, Zenon DEF Alone

(* What holds of the INVITE of such a step.                                *)
LEMMA Before ==
  ASSUME IInv, NEW i \in Invites
  PROVE  /\ TypeOK /\ InviteOK(i)
         /\ tag[i] \in Invites \cup {NoInvite}
         /\ pc[i] # "new" => rejected \cup {callID[i]} \subseteq CallIDs
         /\ {"auth", "supersede", "schedule", "register", "call", "done"} \subseteq PCs
  <1>1. TypeOK /\ InviteOK(i)
    BY Zenon DEF IInv, TableSound, InviteInv
  <1>2. rejected \subseteq CallIDs /\ tag[i] \in Invites \cup {NoInvite}
    BY Zenon, <1>1 DEF TypeOK
  <1> QED BY Zenon, <1>1, <1>2, Known DEF PCs

(* The steps of processInvite that leave the table and the timers alone.   *)
LEMMA ReplayRejectionStep ==
  ASSUME IInv, NEW i \in Invites, ReplayRejection(i)
  PROVE  IInv'
  <1>0. TypeOK /\ InviteOK(i)
    BY Zenon, Before
  <1>2. StepTypes'
    BY Zenon, <1>0, Before DEF TypeOK, StepTypes, ReplayRejection
  <1>3. InviteOK(i)'
    BY Zenon, <1>0 DEF ReplayRejection, TypeOK, InviteOK
  <1>4. Alone(i)
    BY Zenon, <1>0 DEF ReplayRejection, TypeOK, InviteOK, Alone
  <1> QED BY <1>2, <1>3, <1>4, Quiet, Zenon DEF ReplayRejection

(* A re-INVITE of a call that is up.                                       *)
LEMMA ReinviteStep ==
  ASSUME IInv, NEW i \in Invites, Reinvite(i)
  PROVE  IInv'
  <1>0. TypeOK /\ InviteOK(i)
    BY Zenon, Before
  <1>2. StepTypes'
    BY Zenon, <1>0, Before DEF TypeOK, StepTypes, Reinvite
  <1>3. InviteOK(i)'
    BY Zenon, <1>0 DEF Reinvite, TypeOK, InviteOK
  <1>4. Alone(i)
    BY Zenon, <1>0 DEF Reinvite, TypeOK, InviteOK, Alone
  <1> QED BY <1>2, <1>3, <1>4, Quiet, Zenon DEF Reinvite

(* processInvite goes on to the authorisation.                             *)
LEMMA ProcessStep ==
  ASSUME IInv, NEW i \in Invites, Process(i)
  PROVE  IInv'
  <1>0. TypeOK /\ InviteOK(i)
    BY Zenon, Before
  <1>2. StepTypes'
    BY Zenon, <1>0, Before DEF TypeOK, StepTypes, Process
  <1>3. InviteOK(i)'
    BY Zenon, <1>0 DEF Process, TypeOK, InviteOK
  <1>4. Alone(i)
    BY Zenon, <1>0 DEF Process, TypeOK, InviteOK, Alone
  <1> QED BY <1>2, <1>3, <1>4, Quiet, Zenon DEF Process

(* The authorisation is not available: a 503, which is cached.             *)
LEMMA UnavailableStep ==
  ASSUME IInv, NEW i \in Invites, Unavailable(i)
  PROVE  IInv'
  <1>0. TypeOK /\ InviteOK(i)
    BY Zenon, Before
  <1>2. StepTypes'
    <2>1. pc[i] # "new" => rejected \cup {callID[i]} \subseteq CallIDs
      BY Zenon, Before
    <2>2. {"schedule", "register", "call", "done"} \subseteq PCs
      BY Zenon, Before
    <2> QED BY Zenon, <1>0, <2>1, <2>2 DEF TypeOK, StepTypes, Unavailable
  <1>3. InviteOK(i)'
    BY Zenon, <1>0 DEF Unavailable, TypeOK, InviteOK
  <1>4. Alone(i)
    BY Zenon, <1>0 DEF Unavailable, TypeOK, InviteOK, Alone
  <1> QED BY <1>2, <1>3, <1>4, Quiet, Zenon DEF Unavailable

(* The authorisation says to drop the call.                                *)
LEMMA DropFloodStep ==
  ASSUME IInv, NEW i \in Invites, DropFlood(i)
  PROVE  IInv'
  <1>0. TypeOK /\ InviteOK(i)
    BY Zenon, Before
  <1>2. StepTypes'
    BY <1>0, Before DEF TypeOK, StepTypes, DropFlood, Finalize
  <1>3. InviteOK(i)'
    BY <1>0 DEF DropFlood, TypeOK, InviteOK, Finalize
  <1>4. Alone(i)
    BY Zenon, <1>0 DEF DropFlood, TypeOK, InviteOK, Alone, Finalize
  <1> QED BY <1>2, <1>3, <1>4, Quiet, Zenon DEF DropFlood, Finalize

(* The authorisation says to refuse the call.                              *)
LEMMA RefuseStep ==
  ASSUME IInv, NEW i \in Invites, Refuse(i)
  PROVE  IInv'
  <1>0. TypeOK /\ InviteOK(i)
    BY Zenon, Before
  <1>2. StepTypes'
    <2>1. pc[i] # "new" => rejected \cup {callID[i]} \subseteq CallIDs
      BY Zenon, Before
    <2>2. {"schedule", "register", "call", "done"} \subseteq PCs
      BY Zenon, Before
    <2> QED BY <1>0, <2>1, <2>2 DEF TypeOK, StepTypes, Refuse, Finalize
  <1>3. InviteOK(i)'
    BY <1>0 DEF Refuse, TypeOK, InviteOK, Finalize
  <1>4. Alone(i)
    BY Zenon, <1>0 DEF Refuse, TypeOK, InviteOK, Alone, Finalize
  <1> QED BY <1>2, <1>3, <1>4, Quiet, Zenon DEF Refuse, Finalize

(* The authorisation asks for a password.                                  *)
LEMMA AskPasswordStep ==
  ASSUME IInv, NEW i \in Invites, AskPassword(i)
  PROVE  IInv'
  <1>0. TypeOK /\ InviteOK(i)
    BY Zenon, Before
  <1>1. secret' \in [Invites -> BOOLEAN]
    <2>1. secret \in [Invites -> BOOLEAN]
      BY Zenon, <1>0 DEF TypeOK
    <2> QED BY <2>1, Assign, Zenon DEF AskPassword
  <1>2. StepTypes'
    BY Zenon, <1>0, <1>1, Before DEF TypeOK, StepTypes, AskPassword
  <1>3. InviteOK(i)'
    BY Zenon, <1>0 DEF AskPassword, TypeOK, InviteOK
  <1>4. Alone(i)
    BY Zenon, <1>0 DEF AskPassword, TypeOK, InviteOK, Alone
  <1> QED BY <1>2, <1>3, <1>4, Quiet, Zenon DEF AskPassword

(* The authorisation accepts without a password.                           *)
LEMMA AcceptAnywayStep ==
  ASSUME IInv, NEW i \in Invites, AcceptAnyway(i)
  PROVE  IInv'
  <1>0. TypeOK /\ InviteOK(i)
    BY Zenon, Before
  <1>2. StepTypes'
    BY Zenon, <1>0, Before DEF TypeOK, StepTypes, AcceptAnyway
  <1>3. InviteOK(i)'
    BY Zenon, <1>0 DEF AcceptAnyway, TypeOK, InviteOK
  <1>4. Alone(i)
    BY Zenon, <1>0 DEF AcceptAnyway, TypeOK, InviteOK, Alone
  <1> QED BY <1>2, <1>3, <1>4, Quiet, Zenon DEF AcceptAnyway

(* handleInviteAuth has nothing to check.                                  *)
LEMMA SkipAuthenticationStep ==
  ASSUME IInv, NEW i \in Invites, SkipAuthentication(i)
  PROVE  IInv'
  <1>0. TypeOK /\ InviteOK(i)
    BY Zenon, Before
  <1>2. StepTypes'
    BY Zenon, <1>0, Before DEF TypeOK, StepTypes, SkipAuthentication
  <1>3. InviteOK(i)'
    BY Zenon, <1>0 DEF SkipAuthentication, TypeOK, InviteOK
  <1>4. Alone(i)
    BY Zenon, <1>0 DEF SkipAuthentication, TypeOK, InviteOK, Alone
  <1> QED BY <1>2, <1>3, <1>4, Quiet, Zenon DEF SkipAuthentication

(* The local tag is kept for the caller's retry.                           *)
LEMMA RememberStep ==
  ASSUME IInv, NEW i \in Invites, Remember(i)
  PROVE  IInv'
  <1>0. TypeOK /\ InviteOK(i)
    BY Zenon, Before
  <1>1. provisional' \in [CallIDs -> Invites \cup {NoInvite}]
    <2>1. provisional \in [CallIDs -> Invites \cup {NoInvite}]
      BY Zenon, <1>0 DEF TypeOK
    <2>2. /\ tag[i] \in Invites \cup {NoInvite} /\ i \in Invites \cup {NoInvite}
          /\ NoInvite \in Invites \cup {NoInvite}
      BY Zenon, Before
    <2> QED BY <2>1, <2>2, Assign, Zenon DEF Remember
  <1>2. StepTypes'
    <2>1. UNCHANGED <<secret, rejected, registered>>
      BY Zenon DEF Remember
    <2>2. {"schedule", "done"} \subseteq PCs
      BY Zenon, Before
    <2>3. CASE Goto(i, "schedule") /\ UNCHANGED <<status, finalized>>
      BY Zenon, <1>0, <1>1, <2>1, <2>2, <2>3 DEF TypeOK, StepTypes
    <2>4. CASE Goto(i, "done") /\ Finalize(i, "error")
      BY <1>0, <1>1, <2>1, <2>2, <2>4 DEF TypeOK, StepTypes, Finalize
    <2> QED BY <2>3, <2>4, Zenon DEF Remember
  <1>3. InviteOK(i)'
    BY <1>0 DEF Remember, TypeOK, InviteOK, Finalize
  <1>4. Alone(i)
    BY <1>0 DEF Remember, TypeOK, InviteOK, Alone, Finalize
  <1> QED BY <1>2, <1>3, <1>4, Quiet, Zenon DEF Remember, Finalize

(* The call enters byLocalTag.                                             *)
LEMMA RegisterStep ==
  ASSUME IInv, NEW i \in Invites, Register(i)
  PROVE  IInv'
  <1>0. TypeOK /\ InviteOK(i)
    BY Zenon, Before
  <1>1. registered' \in [Invites -> Invites \cup {NoInvite}]
    <2>1. registered \in [Invites -> Invites \cup {NoInvite}]
      BY Zenon, <1>0 DEF TypeOK
    <2>2. /\ tag[i] \in Invites \cup {NoInvite} /\ i \in Invites \cup {NoInvite}
          /\ NoInvite \in Invites \cup {NoInvite}
      BY Zenon, Before
    <2> QED BY <2>1, <2>2, Assign, Zenon DEF Register
  <1>2. StepTypes'
    BY Zenon, <1>0, <1>1, Before DEF TypeOK, StepTypes, Register
  <1>3. InviteOK(i)'
    BY Zenon, <1>0 DEF Register, TypeOK, InviteOK
  <1>4. Alone(i)
    BY Zenon, <1>0 DEF Register, TypeOK, InviteOK, Alone
  <1> QED BY <1>2, <1>3, <1>4, Quiet, Zenon DEF Register

(* The dispatch of handleInvite refuses the call.                          *)
LEMMA RefuseCallStep ==
  ASSUME IInv, NEW i \in Invites, RefuseCall(i)
  PROVE  IInv'
  <1>0. TypeOK /\ InviteOK(i)
    BY Zenon, Before
  <1>2. StepTypes'
    <2>1. pc[i] # "new" => rejected \cup {callID[i]} \subseteq CallIDs
      BY Zenon, Before
    <2>2. {"schedule", "register", "call", "done"} \subseteq PCs
      BY Zenon, Before
    <2> QED BY Zenon, <1>0, <2>1, <2>2 DEF TypeOK, StepTypes, RefuseCall
  <1>3. InviteOK(i)'
    BY Zenon, <1>0 DEF RefuseCall, TypeOK, InviteOK
  <1>4. Alone(i)
    BY Zenon, <1>0 DEF RefuseCall, TypeOK, InviteOK, Alone
  <1> QED BY <1>2, <1>3, <1>4, Quiet, Zenon DEF RefuseCall

(* The call ends and is finalized.                                         *)
LEMMA CallEndsStep ==
  ASSUME IInv, NEW i \in Invites, CallEnds(i)
  PROVE  IInv'
  <1>0. TypeOK /\ InviteOK(i)
    BY Zenon, Before
  <1>1. registered' \in [Invites -> Invites \cup {NoInvite}]
    <2>1. registered \in [Invites -> Invites \cup {NoInvite}]
      BY Zenon, <1>0 DEF TypeOK
    <2>2. /\ tag[i] \in Invites \cup {NoInvite} /\ i \in Invites \cup {NoInvite}
          /\ NoInvite \in Invites \cup {NoInvite}
      BY Zenon, Before
    <2> QED BY <2>1, <2>2, Assign, Zenon DEF CallEnds
  <1>2. StepTypes'
    BY <1>0, <1>1, Before DEF TypeOK, StepTypes, CallEnds, Finalize
  <1>3. InviteOK(i)'
    BY <1>0 DEF CallEnds, TypeOK, InviteOK, Finalize
  <1>4. Alone(i)
    BY <1>0 DEF CallEnds, TypeOK, InviteOK, Alone, Finalize
  <1> QED BY <1>2, <1>3, <1>4, Quiet, Zenon DEF CallEnds, Finalize

-----------------------------------------------------------------------------
(* The steps that touch the table.  What TableSound needs of one.          *)
LEMMA TableStep ==
  ASSUME IInv, Sound(objs', inProgress'),
         pc' \in [Invites -> PCs],
         holds' \in [Invites -> 0 .. Len(objs')],
         timers' \subseteq Invites,
         status' \in [Invites -> {"none", "incoming", "error", "ended"}],
         finalized' \in [Invites -> Nat],
         superseded' \in [Invites -> BOOLEAN],
         UNCHANGED <<callID, cred, tag, secret, provisional, rejected, registered>>
  PROVE  TableSound'
  <1>1. objs' \in Seq(Entries) /\ inProgress' \in Seq(1 .. Len(objs'))
    BY Zenon DEF Sound
  <1>2. TypeOK'
    BY <1>1, Zenon DEF IInv, TableSound, TypeOK
  <1>3. DOMAIN inProgress' = 1 .. Len(inProgress')
    BY Zenon, <1>1, LenProperties
  <1> QED BY <1>2, <1>3, Zenon DEF TableSound, Sound

(* The types of the entries, for the leaves below.                         *)
LEMMA Held ==
  ASSUME IInv
  PROVE  /\ objs \in Seq(Entries) /\ Len(objs) \in Nat
         /\ DOMAIN objs = 1 .. Len(objs)
         /\ holds \in [Invites -> 0 .. Len(objs)]
  BY Zenon, LenProperties DEF IInv, TableSound, TypeOK

(* What InviteInv needs.                                                   *)
LEMMA MoveStep ==
  ASSUME IInv, NEW i \in Invites, InviteOK(i)', UNCHANGED <<callID, cred, secret>>,
         \A j \in Invites \ {i} : /\ pc'[j] = pc[j] /\ holds'[j] = holds[j]
                                  /\ finalized'[j] = finalized[j]
                                  /\ j \in timers' <=> j \in timers,
         \A o \in 1 .. Len(objs) : objs'[o].callID = objs[o].callID
  PROVE  InviteInv'
  <1> SUFFICES ASSUME NEW j \in Invites, j # i PROVE InviteOK(j)'
    BY Zenon DEF InviteInv
  <1>1. InviteOK(j)
    BY Zenon DEF IInv, InviteInv
  <1>2. holds[j] # 0 => holds[j] \in 1 .. Len(objs)
    BY Held
  <1> QED BY <1>1, <1>2, Bystander, Zenon

(* What NonceInv needs.                                                    *)
LEMMA NonceStep ==
  ASSUME IInv, UNCHANGED callID, objs' \in Seq(Entries),
         \A o \in 1 .. Len(objs') :
           \/ objs'[o].nonce = NoInvite
           \/ /\ o \in 1 .. Len(objs)
              /\ objs'[o].nonce = objs[o].nonce /\ objs'[o].callID = objs[o].callID
           \/ /\ objs'[o].nonce <= Len(callID)
              /\ callID[objs'[o].nonce] = objs'[o].callID
  PROVE  NonceInv'
  <1>1. DOMAIN objs' = 1 .. Len(objs') /\ DOMAIN objs = 1 .. Len(objs)
    BY Zenon, Held, LenProperties
  <1> QED BY <1>1, Zenon DEF IInv, NonceInv

(* What SettleInv needs of a step that neither resolves nor returns.       *)
LEMMA ReadStep ==
  ASSUME IInv, NEW i \in Invites, NEW label, label # "done", Goto(i, label),
         UNCHANGED <<holds, timers, finalized>>, objs' \in Seq(Entries),
         \A o \in 1 .. Len(objs') : objs'[o].authResolved =>
           o \in 1 .. Len(objs) /\ objs[o].authResolved
  PROVE  SettleInv'
  <1>0. SettleInv /\ pc \in [Invites -> PCs] /\ DOMAIN objs = 1 .. Len(objs)
    BY Zenon, Held DEF IInv, TableSound, TypeOK
  <1>1. ASSUME NEW o, NEW j \in Invites, Busy(o, j)
        PROVE  holds'[j] = o /\ (pc'[j] # "done" \/ finalized'[j] # 0)
    BY Zenon, <1>0, <1>1 DEF Busy
  <1>2. DOMAIN objs' = 1 .. Len(objs')
    BY Zenon, LenProperties
  <1> QED BY <1>0, <1>1, <1>2, ZenonT(30) DEF SettleInv, Busy

(* handleInviteAuth marks the entry of the Call-ID as resolved.            *)
LEMMA SupersedeStep ==
  ASSUME IInv, NEW i \in Invites, Supersede(i)
  PROVE  IInv'
  <1>0. TypeOK /\ InviteOK(i) /\ SettleInv
    BY Zenon DEF IInv, TableSound, InviteInv
  <1>1. pc[i] = "supersede" /\ holds[i] = 0
    BY Zenon, <1>0 DEF Supersede, InviteOK
  <1>2. callID[i] \in CallIDs /\ i \in 1 .. Len(callID)
    BY Zenon, <1>1, Known
  <1>3. PICK got : got = getInvite(callID[i])
    OBVIOUS
  <1>4. /\ holds' = [holds EXCEPT ![i] = got.id]
        /\ objs' = [got.objs EXCEPT ![got.id].authResolved = TRUE]
        /\ inProgress' = got.table
        /\ Goto(i, "digest")
        /\ UNCHANGED <<requestVars, secret, timers, cacheVars, stateVars>>
    BY <1>3, Zenon DEF Supersede
  <1>5. Looked(callID[i], got)
    BY Zenon, <1>2, <1>3, GetInvite DEF IInv
  <1>6. /\ Patched(got.objs, got.id, objs')
        /\ \A p \in 1 .. Len(got.objs) : objs'[p].nonce = got.objs[p].nonce
    <2>1. got.objs \in Seq(Entries) /\ got.id \in 1 .. Len(got.objs)
      BY Zenon, <1>5 DEF Looked
    <2>2. objs' = Resolve(got.objs, got.id)
      BY <1>4, Zenon DEF Resolve
    <2> QED BY <2>1, <2>2, Resolved, Zenon
  <1>7. Len(objs) \in Nat /\ Len(got.objs) \in Nat /\ DOMAIN objs = 1 .. Len(objs)
        /\ holds \in [Invites -> 0 .. Len(objs)] /\ DOMAIN objs' = 1 .. Len(objs')
    BY Zenon, <1>5, <1>6, Held, LenProperties DEF Looked, Patched
  <1>8. TableSound'
    <2>1. Sound(objs', inProgress')
      BY <1>4, <1>5, <1>6, SoundFrame, Zenon DEF Looked, Patched
    <2>2. pc' \in [Invites -> PCs]
      BY Zenon, <1>0, <1>4 DEF TypeOK, PCs
    <2>3. holds' \in [Invites -> 0 .. Len(objs')]
      BY <1>4, <1>5, <1>6, <1>7 DEF Looked, Patched
    <2>4. superseded' \in [Invites -> BOOLEAN]
      BY Zenon DEF Supersede
    <2>5. timers' \subseteq Invites
      BY Zenon, <1>0, <1>4 DEF TypeOK
    <2>6. /\ status' \in [Invites -> {"none", "incoming", "error", "ended"}]
          /\ finalized' \in [Invites -> Nat]
      BY Zenon, <1>0, <1>4 DEF TypeOK
    <2> QED BY <1>4, <2>1, <2>2, <2>3, <2>4, <2>5, <2>6, TableStep, Zenon
  <1>9. InviteInv'
    <2>1. InviteOK(i)'
      <3>1. holds'[i] = got.id /\ pc'[i] = "digest" /\ objs'[got.id].callID = callID[i]
        BY Zenon, <1>0, <1>4, <1>5, <1>6 DEF TypeOK, Looked, Patched
      <3> QED BY <1>0, <1>1, <1>2, <1>4, <1>5, <3>1 DEF InviteOK, TypeOK, Looked
    <2>2. \A j \in Invites \ {i} : /\ pc'[j] = pc[j] /\ holds'[j] = holds[j]
                                   /\ finalized'[j] = finalized[j]
                                   /\ j \in timers' <=> j \in timers
      BY Zenon, <1>0, <1>4 DEF TypeOK
    <2>3. \A o \in 1 .. Len(objs) : objs'[o].callID = objs[o].callID
      BY <1>5, <1>6, <1>7 DEF Looked, Patched
    <2> QED BY <1>4, <2>1, <2>2, <2>3, MoveStep, Zenon
  <1>10. NonceInv'
    <2>1. \A o \in 1 .. Len(objs') :
             \/ objs'[o].nonce = NoInvite
             \/ /\ o \in 1 .. Len(objs)
                /\ objs'[o].nonce = objs[o].nonce /\ objs'[o].callID = objs[o].callID
      BY <1>5, <1>6, <1>7 DEF Looked, Patched
    <2> QED BY <1>4, <1>6, <2>1, NonceStep, Zenon DEF Patched
  <1>11. SettleInv'
    <2>1. Busy(got.id, i)'
      BY Zenon, <1>0, <1>4 DEF Busy, TypeOK
    <2>2. ASSUME NEW o, o # 0, NEW j \in Invites, Busy(o, j)
          PROVE  Busy(o, j)'
      BY Zenon, <1>0, <1>1, <1>4, <2>2 DEF Busy, TypeOK
    <2>3. ASSUME NEW o \in DOMAIN objs', objs'[o].authResolved
          PROVE  \E j \in Invites : Busy(o, j)'
      <3>1. CASE o = got.id
        BY Zenon, <2>1, <3>1
      <3>2. CASE o # got.id
        <4>1. o \in DOMAIN objs /\ objs[o].authResolved /\ o # 0
          BY <1>5, <1>6, <1>7, <2>3, <3>2 DEF Looked, Patched
        <4>2. PICK j \in Invites : Busy(o, j)
          BY <1>0, <4>1, Zenon DEF SettleInv
        <4> QED BY Zenon, <2>2, <4>1, <4>2
      <3> QED BY Zenon, <3>1, <3>2
    <2>4. ASSUME NEW l \in Invites, holds'[l] # 0
          PROVE  \E j \in Invites : \/ Busy(holds[l], j)'
                                    \/ (holds[j] = holds[l] /\ j \in timers)'
      <3>1. CASE l = i
        <4>1. holds'[l] = got.id
          BY Zenon, <1>4, <1>7, <3>1
        <4> QED BY <2>1, <4>1, Zenon DEF Busy
      <3>2. CASE l # i
        <4>1. holds'[l] = holds[l] /\ holds[l] # 0
          BY Zenon, <1>4, <1>7, <2>4, <3>2
        <4>2. PICK j \in Invites :
                 Busy(holds[l], j) \/ (holds[j] = holds[l] /\ j \in timers)
          BY <1>0, <4>1, Zenon DEF SettleInv
        <4>3. CASE Busy(holds[l], j)
          BY <2>2, <4>1, <4>3, Zenon DEF Busy
        <4>4. CASE holds[j] = holds[l] /\ j \in timers
          <5>1. holds'[j] = holds[j] /\ j \in timers'
            BY Zenon, <1>1, <1>4, <1>7, <4>1, <4>4
          <5> QED BY <4>1, <4>4, <5>1, Zenon
        <4> QED BY Zenon, <4>2, <4>3, <4>4
      <3> QED BY Zenon, <3>1, <3>2
    <2> QED BY <2>3, <2>4, Zenon DEF SettleInv, Busy
  <1> QED BY Zenon, <1>8, <1>9, <1>10, <1>11 DEF IInv

(* SendChallenge names an INVITE of the Call-ID of the entry.              *)
LEMMA SendChallengeStep ==
  ASSUME IInv, NEW i \in Invites, SendChallenge(i)
  PROVE  IInv'
  <1>0. TypeOK /\ InviteOK(i)
    BY Zenon DEF IInv, TableSound, InviteInv
  <1>1. pc[i] = "digest" /\ secret[i]
    BY Zenon DEF SendChallenge
  <1>2. callID[i] \in CallIDs /\ i \in 1 .. Len(callID)
    BY Zenon, <1>1, Known
  <1>3. PICK got : got = getInvite(callID[i])
    OBVIOUS
  <1>4. /\ objs' = [got.objs EXCEPT ![got.id].nonce = i]
        /\ inProgress' = got.table
        /\ Goto(i, "challenged")
        /\ UNCHANGED <<requestVars, secret, holds, timers, cacheVars, stateVars,
                       superseded>>
    BY <1>3, Zenon DEF SendChallenge
  <1>5. Looked(callID[i], got)
    BY Zenon, <1>2, <1>3, GetInvite DEF IInv
  <1>6. /\ Patched(got.objs, got.id, objs') /\ objs'[got.id].nonce = i
        /\ \A p \in 1 .. Len(got.objs) : objs'[p].authResolved = got.objs[p].authResolved
    <2>1. got.objs \in Seq(Entries) /\ got.id \in 1 .. Len(got.objs)
      BY Zenon, <1>5 DEF Looked
    <2>2. objs' = Send(got.objs, got.id, i)
      BY <1>4, Zenon DEF Send
    <2> QED BY <2>1, <2>2, Sent, Zenon
  <1>7. Len(objs) \in Nat /\ Len(got.objs) \in Nat /\ Len(objs) <= Len(objs')
        /\ holds \in [Invites -> 0 .. Len(objs)]
    BY Zenon, <1>5, <1>6, Held, LenProperties DEF Looked, Patched
  <1>l. Extended(got.objs)
    BY <1>5, <1>7, LookedAt, Zenon
  <1>8. TableSound'
    <2>1. Sound(objs', inProgress')
      BY <1>4, <1>5, <1>6, SoundFrame, Zenon DEF Looked, Patched
    <2>2. pc' \in [Invites -> PCs]
      BY Zenon, <1>0, <1>4 DEF TypeOK, PCs
    <2>3. holds' \in [Invites -> 0 .. Len(objs')]
      BY <1>4, <1>7
    <2>4. /\ timers' \subseteq Invites /\ superseded' \in [Invites -> BOOLEAN]
          /\ status' \in [Invites -> {"none", "incoming", "error", "ended"}]
          /\ finalized' \in [Invites -> Nat]
      BY <1>0, <1>4, Zenon DEF TypeOK
    <2> QED BY <1>4, <2>1, <2>2, <2>3, <2>4, TableStep, Zenon
  <1>9. InviteInv'
    <2>1. \A o \in 1 .. Len(objs) : objs'[o].callID = objs[o].callID
      BY <1>6, <1>l, Zenon DEF Patched, Extended
    <2>2. InviteOK(i)'
      <3>1. pc'[i] = "challenged" /\ holds'[i] = holds[i]
        BY Zenon, <1>0, <1>4 DEF TypeOK
      <3>2. holds[i] # 0 /\ objs'[holds[i]].callID = objs[holds[i]].callID
        BY <1>0, <1>1, <1>7, <2>1 DEF InviteOK
      <3> QED BY Zenon, <1>0, <1>1, <1>4, <3>1, <3>2 DEF InviteOK, TypeOK
    <2>3. \A j \in Invites \ {i} : /\ pc'[j] = pc[j] /\ holds'[j] = holds[j]
                                   /\ finalized'[j] = finalized[j]
                                   /\ j \in timers' <=> j \in timers
      BY Zenon, <1>0, <1>4 DEF TypeOK
    <2> QED BY <1>4, <2>1, <2>2, <2>3, MoveStep, Zenon
  <1>10. NonceInv'
    <2>1. \A o \in 1 .. Len(objs') :
             \/ objs'[o].nonce = NoInvite
             \/ /\ o \in 1 .. Len(objs)
                /\ objs'[o].nonce = objs[o].nonce /\ objs'[o].callID = objs[o].callID
             \/ /\ objs'[o].nonce <= Len(callID)
                /\ callID[objs'[o].nonce] = objs'[o].callID
      <3> SUFFICES ASSUME NEW o \in 1 .. Len(got.objs), o # got.id
                   PROVE  \/ objs'[o].nonce = NoInvite
                          \/ /\ o \in 1 .. Len(objs)
                             /\ objs'[o].nonce = objs[o].nonce
                             /\ objs'[o].callID = objs[o].callID
        <4>1. objs'[got.id].callID = callID[i] /\ i <= Len(callID)
          BY <1>2, <1>5, <1>6 DEF Looked, Patched
        <4> QED BY <1>6, <4>1, Zenon DEF Patched
      <3> QED BY <1>6, <1>l, Zenon DEF Patched, Extended
    <2> QED BY <1>4, <1>6, <2>1, NonceStep, Zenon DEF Patched
  <1>11. SettleInv'
    <2>1. \A o \in 1 .. Len(objs') : objs'[o].authResolved =>
             o \in 1 .. Len(objs) /\ objs[o].authResolved
      BY <1>6, <1>l, Zenon DEF Patched, Extended
    <2>2. "challenged" # "done"
      OBVIOUS
    <2> QED BY <1>4, <1>6, <2>1, <2>2, ReadStep, Zenon DEF Patched
  <1> QED BY Zenon, <1>8, <1>9, <1>10, <1>11 DEF IInv

(* CheckCredentials lets in only who answers the nonce of the entry, which *)
(* NonceInv says was sent to this Call-ID.                                 *)
LEMMA CheckCredentialsStep ==
  ASSUME IInv, NEW i \in Invites, CheckCredentials(i)
  PROVE  IInv'
  <1>0. TypeOK /\ InviteOK(i)
    BY Zenon DEF IInv, TableSound, InviteInv
  <1>1. pc[i] = "digest" /\ secret[i]
    BY Zenon DEF CheckCredentials
  <1>2. callID[i] \in CallIDs /\ i \in 1 .. Len(callID)
    BY Zenon, <1>1, Known
  <1>3. PICK got : got = getInvite(callID[i])
    OBVIOUS
  <1>m. PICK label \in {"register", "unauthorized"} :
           /\ Goto(i, label)
           /\ label = "register" => got.objs[got.id].nonce = cred[i]
    BY <1>3, Zenon DEF CheckCredentials
  <1>4. /\ objs' = got.objs
        /\ inProgress' = got.table
        /\ Goto(i, label)
        /\ cred[i] # NoCred
        /\ UNCHANGED <<requestVars, secret, holds, timers, cacheVars, stateVars,
                       superseded>>
    BY <1>3, <1>m, Zenon DEF CheckCredentials
  <1>5. Looked(callID[i], got)
    BY Zenon, <1>2, <1>3, GetInvite DEF IInv
  <1>6. Patched(got.objs, got.id, objs')
    BY Zenon, <1>4, <1>5 DEF Patched, Looked
  <1>7. Len(objs) \in Nat /\ Len(got.objs) \in Nat /\ Len(objs) <= Len(objs')
        /\ holds \in [Invites -> 0 .. Len(objs)]
    BY Zenon, <1>5, <1>6, Held, LenProperties DEF Looked, Patched
  <1>l. Extended(got.objs)
    BY <1>5, <1>7, LookedAt, Zenon
  <1>8. TableSound'
    <2>1. Sound(objs', inProgress')
      BY <1>4, <1>5, <1>6, SoundFrame, Zenon DEF Looked, Patched
    <2>2. pc' \in [Invites -> PCs]
      BY Zenon, <1>0, <1>4 DEF TypeOK, PCs
    <2>3. holds' \in [Invites -> 0 .. Len(objs')]
      BY <1>4, <1>7
    <2>4. /\ timers' \subseteq Invites /\ superseded' \in [Invites -> BOOLEAN]
          /\ status' \in [Invites -> {"none", "incoming", "error", "ended"}]
          /\ finalized' \in [Invites -> Nat]
      BY <1>0, <1>4, Zenon DEF TypeOK
    <2> QED BY <1>4, <2>1, <2>2, <2>3, <2>4, TableStep, Zenon
  <1>a. label = "register" => cred[i] \in 1 .. (i - 1) /\ callID[cred[i]] = callID[i]
    <2> SUFFICES ASSUME label = "register"
                 PROVE  cred[i] \in 1 .. (i - 1) /\ callID[cred[i]] = callID[i]
      OBVIOUS
    <2>1. got.objs[got.id].nonce = cred[i] /\ cred[i] # 0
      BY Zenon, <1>m, <1>4
    <2>2. got.id \in 1 .. Len(objs) /\ objs[got.id].nonce = cred[i]
          /\ objs[got.id].callID = callID[i]
      BY <1>5, <1>7, <2>1 DEF Looked
    <2>3. objs[got.id] \in Entries /\ DOMAIN objs = 1 .. Len(objs)
      BY Zenon, <2>2, Held, ElementOfSeq
    <2>4. objs[got.id].nonce \in Invites \cup {NoInvite}
      BY Zenon, <2>3 DEF Entries
    <2>5. cred[i] \in 1 .. (i - 1)
      BY <1>0, <2>1, <2>2, <2>4, BoundsAssumption DEF InviteOK, Invites, BadCred
    <2>6. callID[objs[got.id].nonce] = objs[got.id].callID
      BY <2>1, <2>2, <2>3, Zenon DEF IInv, NonceInv
    <2> QED BY Zenon, <2>2, <2>5, <2>6
  <1>9. InviteInv'
    <2>1. \A o \in 1 .. Len(objs) : objs'[o].callID = objs[o].callID
      BY <1>6, <1>l, Zenon DEF Patched, Extended
    <2>2. InviteOK(i)'
      <3>0. pc \in [Invites -> PCs]
        BY Zenon, <1>0 DEF TypeOK
      <3>1. pc'[i] = label /\ holds'[i] = holds[i]
        BY <1>4, <3>0, Zenon
      <3>2. holds[i] # 0 /\ objs'[holds[i]].callID = objs[holds[i]].callID
        <4>1. holds[i] # 0
          BY <1>0, <1>1, Zenon DEF InviteOK
        <4>2. holds[i] \in 1 .. Len(objs)
          BY <1>7, <4>1
        <4> QED BY <2>1, <4>1, <4>2, Zenon
      <3> QED BY Zenon, <1>0, <1>1, <1>4, <1>a, <3>1, <3>2 DEF InviteOK,
           TypeOK
    <2>3. \A j \in Invites \ {i} : /\ pc'[j] = pc[j] /\ holds'[j] = holds[j]
                                   /\ finalized'[j] = finalized[j]
                                   /\ j \in timers' <=> j \in timers
      BY Zenon, <1>0, <1>4 DEF TypeOK
    <2> QED BY <1>4, <2>1, <2>2, <2>3, MoveStep, Zenon
  <1>10. NonceInv'
    <2>1. \A o \in 1 .. Len(objs') :
             \/ objs'[o].nonce = NoInvite
             \/ /\ o \in 1 .. Len(objs)
                /\ objs'[o].nonce = objs[o].nonce /\ objs'[o].callID = objs[o].callID
      BY <1>4, <1>l, Zenon DEF Extended
    <2> QED BY <1>4, <1>6, <2>1, NonceStep, Zenon DEF Patched
  <1>11. SettleInv'
    <2>1. \A o \in 1 .. Len(objs') : objs'[o].authResolved =>
             o \in 1 .. Len(objs) /\ objs[o].authResolved
      BY <1>4, <1>l, Zenon DEF Extended
    <2>2. label # "done"
      BY Zenon, <1>m
    <2> QED BY <1>4, <1>6, <2>1, <2>2, ReadStep, Zenon DEF Patched
  <1> QED BY Zenon, <1>8, <1>9, <1>10, <1>11 DEF IInv

(* Schedule takes back its own authResolved, and leaves a timer behind.    *)
LEMMA ScheduleStep ==
  ASSUME IInv, NEW i \in Invites, Schedule(i)
  PROVE  IInv'
  <1>0. TypeOK /\ InviteOK(i) /\ SettleInv
    BY Zenon DEF IInv, TableSound, InviteInv
  <1>1. pc[i] = "schedule" /\ holds[i] \in 1 .. Len(objs)
    BY <1>0, Held DEF Schedule, InviteOK
  <1>3. /\ objs' = [objs EXCEPT ![holds[i]].authResolved = FALSE]
        /\ timers' = timers \cup {i}
        /\ Goto(i, "done")
        /\ UNCHANGED <<requestVars, secret, holds, inProgress, cacheVars, stateVars,
                       superseded>>
    BY Zenon DEF Schedule
  <1>4. /\ Patched(objs, holds[i], objs')
        /\ \A p \in 1 .. Len(objs) : objs'[p].nonce = objs[p].nonce
        /\ objs'[holds[i]].authResolved = FALSE
    <2>1. objs \in Seq(Entries)
      BY Zenon, Held
    <2>2. objs' = Reset(objs, holds[i])
      BY <1>3, Zenon DEF Reset
    <2> QED BY <1>1, <2>1, <2>2, HasReset, Zenon
  <1>5. /\ Len(objs) \in Nat /\ holds \in [Invites -> 0 .. Len(objs)]
        /\ DOMAIN objs = 1 .. Len(objs) /\ DOMAIN objs' = 1 .. Len(objs')
    BY Zenon, <1>4, Held, LenProperties DEF Patched
  <1>7. TableSound'
    <2>1. Sound(objs', inProgress')
      <3>1. Sound(objs, inProgress)
        BY Zenon, TableIsSound DEF IInv
      <3> QED BY <1>3, <1>4, <3>1, SoundFrame, Zenon DEF Patched
    <2>2. pc' \in [Invites -> PCs]
      BY Zenon, <1>0, <1>3 DEF TypeOK, PCs
    <2>3. holds' \in [Invites -> 0 .. Len(objs')]
      BY Zenon, <1>3, <1>4, <1>5 DEF Patched
    <2>4. timers' \subseteq Invites /\ superseded' \in [Invites -> BOOLEAN]
      BY Zenon, <1>0, <1>3 DEF TypeOK
    <2>5. /\ status' \in [Invites -> {"none", "incoming", "error", "ended"}]
          /\ finalized' \in [Invites -> Nat]
      BY Zenon, <1>0, <1>3 DEF TypeOK
    <2> QED BY <1>3, <2>1, <2>2, <2>3, <2>4, <2>5, TableStep, Zenon
  <1>8. InviteInv'
    <2>1. \A o \in 1 .. Len(objs) : objs'[o].callID = objs[o].callID
      BY Zenon, <1>4 DEF Patched
    <2>2. InviteOK(i)'
      <3>1. objs'[holds[i]].callID = objs[holds[i]].callID
        BY Zenon, <1>1, <2>1
      <3> QED BY Zenon, <1>0, <1>1, <1>3, <3>1 DEF InviteOK, TypeOK
    <2>3. \A j \in Invites \ {i} : /\ pc'[j] = pc[j] /\ holds'[j] = holds[j]
                                   /\ finalized'[j] = finalized[j]
                                   /\ j \in timers' <=> j \in timers
      BY Zenon, <1>0, <1>3 DEF TypeOK
    <2> QED BY <1>3, <2>1, <2>2, <2>3, MoveStep, Zenon
  <1>9. NonceInv'
    <2>1. \A o \in 1 .. Len(objs') :
             /\ o \in 1 .. Len(objs)
             /\ objs'[o].nonce = objs[o].nonce /\ objs'[o].callID = objs[o].callID
      BY Zenon, <1>4 DEF Patched
    <2> QED BY <1>3, <1>4, <2>1, NonceStep, Zenon DEF Patched
  <1>10. SettleInv'
    <2>1. ASSUME NEW o, NEW j \in Invites, Busy(o, j), j # i
          PROVE  Busy(o, j)'
      BY Zenon, <1>0, <1>3, <2>1 DEF Busy, TypeOK
    <2>2. ASSUME NEW o \in DOMAIN objs', objs'[o].authResolved
          PROVE  \E j \in Invites : Busy(o, j)'
      <3>1. o \in DOMAIN objs /\ objs[o].authResolved /\ o # holds[i]
        BY Zenon, <1>4, <1>5, <2>2 DEF Patched
      <3>2. PICK j \in Invites : Busy(o, j)
        BY <1>0, <3>1, Zenon DEF SettleInv
      <3> QED BY <2>1, <3>1, <3>2, Zenon DEF Busy
    <2>3. ASSUME NEW l \in Invites, holds'[l] # 0
          PROVE  \E j \in Invites : \/ Busy(holds[l], j)'
                                    \/ (holds[j] = holds[l] /\ j \in timers)'
      <3>1. holds'= holds /\ holds[l] # 0
        BY Zenon, <1>3, <2>3
      <3>2. PICK j \in Invites : Busy(holds[l], j) \/ (holds[j] = holds[l] /\ j \in timers)
        BY <1>0, <3>1, Zenon DEF SettleInv
      <3>3. j \in timers \/ j = i => j \in timers'
        BY Zenon, <1>3
      <3> QED BY <2>1, <3>1, <3>2, <3>3, Zenon DEF Busy
    <2> QED BY <2>2, <2>3, Zenon DEF SettleInv, Busy
  <1> QED BY Zenon, <1>7, <1>8, <1>9, <1>10 DEF IInv

(* The challenge timer: it wins authResolved and finalizes its own state,  *)
(* or leaves that to the busy INVITE behind the authResolved it found.     *)
LEMMA TimerWins ==
  ASSUME IInv, NEW i \in Invites, TimerFires(i), ~objs[holds[i]].authResolved
  PROVE  IInv'
  <1>0. TypeOK /\ InviteOK(i) /\ SettleInv
    BY Zenon DEF IInv, TableSound, InviteInv
  <1>1. i \in timers /\ pc[i] = "done" /\ holds[i] \in 1 .. Len(objs)
    BY <1>0, Held DEF TimerFires, InviteOK
  <1>3. /\ timers' = timers \ {i}
        /\ objs' = [objs EXCEPT ![holds[i]].authResolved = TRUE]
        /\ Finalize(i, "error")
        /\ UNCHANGED <<requestVars, secret, pc, holds, inProgress, cacheVars,
                       superseded>>
    BY Zenon DEF TimerFires
  <1>4. /\ Patched(objs, holds[i], objs')
        /\ \A p \in 1 .. Len(objs) : objs'[p].nonce = objs[p].nonce
    <2>1. objs \in Seq(Entries)
      BY Zenon, Held
    <2>2. objs' = Resolve(objs, holds[i])
      BY <1>3, Zenon DEF Resolve
    <2> QED BY <1>1, <2>1, <2>2, Resolved, Zenon
  <1>5. /\ Len(objs) \in Nat /\ holds \in [Invites -> 0 .. Len(objs)]
        /\ DOMAIN objs = 1 .. Len(objs) /\ DOMAIN objs' = 1 .. Len(objs')
    BY Zenon, <1>4, Held, LenProperties DEF Patched
  <1>7. TableSound'
    <2>1. Sound(objs', inProgress')
      <3>1. Sound(objs, inProgress)
        BY Zenon, TableIsSound DEF IInv
      <3> QED BY <1>3, <1>4, <3>1, SoundFrame, Zenon DEF Patched
    <2>2. pc' \in [Invites -> PCs]
      BY Zenon, <1>0, <1>3 DEF TypeOK
    <2>3. holds' \in [Invites -> 0 .. Len(objs')]
      BY Zenon, <1>3, <1>4, <1>5 DEF Patched
    <2>4. timers' \subseteq Invites /\ superseded' \in [Invites -> BOOLEAN]
      BY Zenon, <1>0, <1>3 DEF TypeOK
    <2>5. /\ status' \in [Invites -> {"none", "incoming", "error", "ended"}]
          /\ finalized' \in [Invites -> Nat]
      BY <1>0, <1>3 DEF TypeOK, Finalize
    <2> QED BY <1>3, <2>1, <2>2, <2>3, <2>4, <2>5, TableStep, Zenon
  <1>8. InviteInv'
    <2>1. \A o \in 1 .. Len(objs) : objs'[o].callID = objs[o].callID
      BY Zenon, <1>4 DEF Patched
    <2>2. InviteOK(i)'
      <3>1. objs'[holds[i]].callID = objs[holds[i]].callID
        BY Zenon, <1>1, <2>1
      <3> QED BY <1>0, <1>1, <1>3, <3>1 DEF InviteOK, TypeOK, Finalize
    <2>3. \A j \in Invites \ {i} : /\ pc'[j] = pc[j] /\ holds'[j] = holds[j]
                                   /\ finalized'[j] = finalized[j]
                                   /\ j \in timers' <=> j \in timers
      BY Zenon, <1>0, <1>3 DEF TypeOK, Finalize
    <2> QED BY <1>3, <2>1, <2>2, <2>3, MoveStep, Zenon
  <1>9. NonceInv'
    <2>1. \A o \in 1 .. Len(objs') :
             /\ o \in 1 .. Len(objs)
             /\ objs'[o].nonce = objs[o].nonce /\ objs'[o].callID = objs[o].callID
      BY Zenon, <1>4 DEF Patched
    <2> QED BY <1>3, <1>4, <2>1, NonceStep, Zenon DEF Patched
  <1>10. SettleInv'
    <2>1. ASSUME NEW o, NEW j \in Invites, Busy(o, j)
          PROVE  Busy(o, j)'
      BY <1>0, <1>1, <1>3, <2>1 DEF Busy, TypeOK, Finalize
    <2>2. Busy(holds[i], i)'
      <3>1. finalized'[i] # 0 /\ holds' = holds
        BY <1>0, <1>3 DEF TypeOK, Finalize
      <3> QED BY <3>1, Zenon DEF Busy
    <2>3. ASSUME NEW o \in DOMAIN objs', objs'[o].authResolved
          PROVE  \E j \in Invites : Busy(o, j)'
      <3>1. CASE o = holds[i]
        BY <1>3, <2>2, <3>1, Zenon DEF Busy
      <3>2. CASE o # holds[i]
        <4>1. o \in DOMAIN objs /\ objs[o].authResolved
          BY Zenon, <1>4, <1>5, <2>3, <3>2 DEF Patched
        <4>2. PICK j \in Invites : Busy(o, j)
          BY <1>0, <4>1, Zenon DEF SettleInv
        <4> QED BY Zenon, <2>1, <4>2
      <3> QED BY Zenon, <3>1, <3>2
    <2>4. ASSUME NEW l \in Invites, holds'[l] # 0
          PROVE  \E j \in Invites : \/ Busy(holds[l], j)'
                                    \/ (holds[j] = holds[l] /\ j \in timers)'
      <3>1. holds'= holds /\ holds[l] # 0
        BY Zenon, <1>3, <2>4
      <3>2. PICK j \in Invites : Busy(holds[l], j) \/ (holds[j] = holds[l] /\ j \in timers)
        BY <1>0, <3>1, Zenon DEF SettleInv
      <3>3. CASE Busy(holds[l], j)
        BY <2>1, <3>1, <3>3, Zenon DEF Busy
      <3>4. CASE holds[j] = holds[l] /\ j = i
        BY <2>2, <3>1, <3>4, Zenon DEF Busy
      <3>5. CASE holds[j] = holds[l] /\ j \in timers /\ j # i
        <4>1. j \in timers'
          BY Zenon, <1>3, <3>5
        <4> QED BY <3>1, <3>5, <4>1, Zenon
      <3> QED BY Zenon, <3>2, <3>3, <3>4, <3>5
    <2> QED BY <2>3, <2>4, Zenon DEF SettleInv, Busy
  <1> QED BY Zenon, <1>7, <1>8, <1>9, <1>10 DEF IInv

(* The timer of a challenge fires.                                         *)
LEMMA TimerStep ==
  ASSUME IInv, NEW i \in Invites, TimerFires(i)
  PROVE  IInv'
  <1>0. TypeOK /\ InviteOK(i) /\ SettleInv
    BY Zenon DEF IInv, TableSound, InviteInv
  <1>1. i \in timers /\ pc[i] = "done" /\ holds[i] \in 1 .. Len(objs)
    BY <1>0, Held DEF TimerFires, InviteOK
  <1>2. CASE objs[holds[i]].authResolved
    <2>3. /\ timers' = timers \ {i}
          /\ UNCHANGED <<callID, cred, tag, secret, pc, holds, objs, inProgress,
                         provisional, rejected, registered, status, finalized,
                         superseded>>
      BY <1>2, Zenon DEF TimerFires
    <2>4. TableSound'
      <3>1. timers' \subseteq Invites
        BY Zenon, <1>0, <2>3 DEF TypeOK
      <3> QED BY <2>3, <3>1, Zenon DEF IInv, TableSound, TypeOK
    <2>5. InviteInv' /\ NonceInv'
      <3>1. InviteOK(i)'
        BY Zenon, <1>0, <1>1, <2>3 DEF InviteOK, TypeOK
      <3>2. \A j \in Invites \ {i} : j \in timers' <=> j \in timers
        BY Zenon, <2>3
      <3>3. InviteInv'
        BY <2>3, <3>1, <3>2, MoveStep, Zenon
      <3> QED BY <2>3, <3>3, Zenon DEF IInv, NonceInv
    <2>6. SettleInv'
      <3>1. \A o, j : Busy(o, j) => Busy(o, j)'
        BY <2>3, Zenon DEF Busy
      <3>2. PICK b \in Invites : Busy(holds[i], b)
        BY <1>0, <1>1, <1>2, Held, Zenon DEF SettleInv
      <3>3. ASSUME NEW l \in Invites, holds[l] # 0
            PROVE  \E j \in Invites : \/ Busy(holds[l], j)
                                      \/ (holds[j] = holds[l] /\ j \in timers')
        <4>1. PICK j \in Invites :
                 Busy(holds[l], j) \/ (holds[j] = holds[l] /\ j \in timers)
          BY <1>0, <3>3, Zenon DEF SettleInv
        <4>2. CASE j # i
          BY <2>3, <4>1, <4>2, Zenon
        <4>3. CASE j = i
          BY <3>2, <4>1, <4>3, Zenon
        <4> QED BY Zenon, <4>2, <4>3
      <3> QED BY <1>0, <2>3, <3>1, <3>3, Zenon DEF SettleInv
    <2> QED BY Zenon, <2>4, <2>5, <2>6 DEF IInv
  <1> QED BY Zenon, <1>2, TimerWins

(* A new INVITE takes the next number, so it comes after every challenge.  *)
LEMMA ReceiveStep ==
  ASSUME IInv, NEW k \in CallIDs, NEW c \in {NoCred, BadCred} \cup Challenged,
         NEW t \in ToTags(k), Receive(k, c, t)
  PROVE  IInv'
  <1>0. TypeOK /\ InviteInv /\ NonceInv /\ SettleInv
    BY Zenon DEF IInv, TableSound
  <1>1. /\ callID \in Seq(CallIDs) /\ Len(callID) \in Nat
        /\ DOMAIN callID = 1 .. Len(callID) /\ MaxInvites \in Nat
    BY Zenon, <1>0, LenProperties, BoundsAssumption DEF TypeOK
  <1>2. PICK i : i = Len(callID) + 1
    OBVIOUS
  <1>3. /\ i \in Invites
        /\ callID' = Append(callID, k)
        /\ cred' = [cred EXCEPT ![i] = c]
        /\ tag' = [tag EXCEPT ![i] = IF t # NoInvite THEN t
                                     ELSE IF provisional[k] # NoInvite THEN provisional[k]
                                     ELSE i]
        /\ pc' = [pc EXCEPT ![i] = "lookup"]
    BY <1>1, <1>2 DEF Receive, Invites
  <1>4. UNCHANGED <<secret, holds, objs, inProgress, timers, provisional, rejected,
                    registered, status, finalized, superseded>>
    BY Zenon DEF Receive
  <1>5. /\ callID' \in Seq(CallIDs) /\ Len(callID') = Len(callID) + 1
        /\ Len(callID') <= MaxInvites
        /\ \A n \in 1 .. Len(callID) : callID'[n] = callID[n]
    BY <1>1, <1>2, <1>3, AppendProperties DEF Invites
  <1>6. /\ InviteOK(i) /\ pc[i] = "new"
        /\ c \in {NoCred, BadCred} \cup 1 .. (i - 1)
    <2>1. InviteOK(i) /\ pc[i] = "new"
      <3>1. i > Len(callID)
        BY <1>1, <1>2
      <3> QED BY <1>0, <1>3, <3>1, Zenon DEF InviteInv, InviteOK
    <2>2. ASSUME c \in Challenged
          PROVE  c \in 1 .. (i - 1)
      <3>1. c \in Invites /\ pc[c] # "new"
        BY Zenon, <2>2 DEF Challenged
      <3>2. InviteOK(c)
        BY Zenon, <1>0, <3>1 DEF InviteInv
      <3> QED BY <1>1, <1>2, <3>1, <3>2 DEF InviteOK, Invites
    <2> QED BY Zenon, <2>1, <2>2
  <1>7. TypeOK'
    <2>1. t \in Invites \cup {NoInvite}
      <3>1. t = NoInvite \/ \E j \in DOMAIN callID : t = tag[j]
        BY Zenon DEF ToTags
      <3>2. tag \in [Invites -> Invites \cup {NoInvite}] /\ DOMAIN callID \subseteq Invites
        BY <1>0, <1>1 DEF TypeOK, Invites
      <3> QED BY <3>1, <3>2, Zenon
    <2>2. provisional[k] \in Invites \cup {NoInvite}
      BY Zenon, <1>0 DEF TypeOK
    <2>3. tag' \in [Invites -> Invites \cup {NoInvite}]
      BY Zenon, <1>0, <1>3, <2>1, <2>2 DEF TypeOK
    <2>4. cred' \in [Invites -> NoCred .. BadCred]
      <3>1. cred \in [Invites -> NoCred .. BadCred]
        BY Zenon, <1>0 DEF TypeOK
      <3>2. c \in NoCred .. BadCred
        BY <1>1, <1>2, <1>3, <1>6 DEF Invites, NoCred, BadCred
      <3> QED BY <1>3, <3>1, <3>2, Assign, Zenon
    <2>5. pc' \in [Invites -> PCs]
      BY Zenon, <1>0, <1>3 DEF TypeOK, PCs
    <2> QED BY <1>0, <1>4, <1>5, <2>3, <2>4, <2>5, Zenon DEF TypeOK
  <1>8. InviteInv'
    <2> SUFFICES ASSUME NEW j \in Invites
                 PROVE  InviteOK(j)'
      BY Zenon DEF InviteInv
    <2>1. InviteOK(j)
      BY <1>0, Zenon DEF InviteInv
    <2>2. CASE j = i
      <3>1. /\ pc'[i] = "lookup" /\ cred'[i] = c /\ i \in Nat /\ holds[i] = 0
            /\ ~secret[i] /\ finalized[i] = 0 /\ i \notin timers
        <4>1. pc \in [Invites -> PCs] /\ cred \in [Invites -> NoCred .. BadCred]
          BY Zenon, <1>0 DEF TypeOK
        <4>2. pc'[i] = "lookup" /\ cred'[i] = c
          BY <1>3, <4>1, Zenon
        <4>3. holds[i] = 0 /\ ~secret[i] /\ finalized[i] = 0 /\ i \notin timers
          BY Zenon, <1>6 DEF InviteOK
        <4> QED BY <1>1, <1>2, <4>2, <4>3
      <3>2. ~(i > Len(callID'))
        BY <1>1, <1>2, <1>5
      <3>3. c \in {NoCred, BadCred} \cup 1 .. (i - 1)
        BY Zenon, <1>6
      <3>4. "lookup" \notin {"digest", "challenged", "schedule", "new", "register", "call"}
        OBVIOUS
      <3> QED BY <1>4, <2>2, <3>1, <3>2, <3>3, <3>4, Zenon DEF InviteOK
    <2>3. CASE j # i
      <3>1. /\ pc'[j] = pc[j] /\ cred'[j] = cred[j]
            /\ pc[j] = "new" <=> j > Len(callID')
        <4>1. pc \in [Invites -> PCs] /\ cred \in [Invites -> NoCred .. BadCred]
          BY Zenon, <1>0 DEF TypeOK
        <4>2. pc'[j] = pc[j] /\ cred'[j] = cred[j]
          BY <1>3, <2>3, <4>1, Zenon
        <4>3. j \in Nat /\ (pc[j] = "new" <=> j > Len(callID))
          BY <2>1 DEF InviteOK, Invites
        <4> QED BY <1>1, <1>2, <1>5, <2>3, <4>2, <4>3
      <3>2. ASSUME pc[j] # "new"
            PROVE  /\ callID'[j] = callID[j]
                   /\ cred[j] \in 1 .. (j - 1) => callID'[cred[j]] = callID[cred[j]]
        BY <1>1, <1>5, <2>1, <3>2 DEF InviteOK, Invites
      <3> HIDE <1>3
      <3> QED BY <1>4, <2>1, <3>1, <3>2, Zenon DEF InviteOK
    <2> QED BY Zenon, <2>2, <2>3
  <1>9. NonceInv'
    <2> SUFFICES ASSUME NEW o \in DOMAIN objs, objs[o].nonce # NoInvite
                 PROVE  /\ objs[o].nonce <= Len(callID')
                        /\ callID'[objs[o].nonce] = objs[o].callID
      BY <1>4, Zenon DEF NonceInv
    <2>1. objs[o] \in Entries
      BY <1>0 DEF TypeOK
    <2>2. objs[o].nonce \in Invites
      BY Zenon, <2>1 DEF Entries
    <2>3. objs[o].nonce <= Len(callID) /\ callID[objs[o].nonce] = objs[o].callID
      BY <1>0, Zenon DEF NonceInv
    <2> QED BY <1>1, <1>5, <2>2, <2>3 DEF Invites
  <1>10. SettleInv'
    <2>1. ASSUME NEW o, NEW j \in Invites, Busy(o, j)
          PROVE  Busy(o, j)'
      BY Zenon, <1>0, <1>3, <1>4, <2>1 DEF Busy, TypeOK
    <2> QED BY <1>0, <1>4, <2>1, Zenon DEF SettleInv
  <1>11. TableSound'
    BY <1>4, <1>7, Zenon DEF IInv, TableSound
  <1> QED BY Zenon, <1>8, <1>9, <1>10, <1>11 DEF IInv

(* What no entry, timer and goroutine changed with.                        *)
LEMMA Frame ==
  ASSUME IInv, TypeOK',
         UNCHANGED <<callID, cred, secret, pc, holds, objs, inProgress, timers,
                     finalized>>
  PROVE  IInv'
  <1>1. TableSound'
    BY Zenon DEF IInv, TableSound
  <1>2. InviteInv'
    <2> SUFFICES ASSUME NEW j \in Invites, InviteOK(j)
                 PROVE  InviteOK(j)'
      BY Zenon DEF IInv, InviteInv
    <2>1. TypeOK
      BY Zenon DEF IInv, TableSound
    <2> QED BY <2>1, SMT DEF InviteOK, TypeOK
  <1>3. NonceInv'
    BY Zenon DEF IInv, NonceInv
  <1>4. SettleInv'
    BY ZenonT(30) DEF IInv, SettleInv, Busy
  <1> QED BY Zenon, <1>1, <1>2, <1>3, <1>4 DEF IInv

(* An expired cache entry takes nothing with it.                           *)
LEMMA ExpireStep ==
  ASSUME IInv, Expire
  PROVE  IInv'
  <1>1. UNCHANGED <<callID, cred, tag, secret, pc, holds, objs, inProgress, timers,
                    registered, status, finalized, superseded>>
    BY Zenon DEF Expire
  <1>2. /\ provisional' \in [CallIDs -> Invites \cup {NoInvite}]
        /\ rejected' \subseteq CallIDs
    <2>1. /\ provisional \in [CallIDs -> Invites \cup {NoInvite}]
          /\ rejected \subseteq CallIDs
      BY Zenon DEF IInv, TableSound, TypeOK
    <2>2. NoInvite \in Invites \cup {NoInvite}
      OBVIOUS
    <2>3. PICK k \in CallIDs :
            \/ provisional' = [provisional EXCEPT ![k] = NoInvite] /\ UNCHANGED rejected
            \/ rejected' = rejected \ {k} /\ UNCHANGED provisional
      BY Zenon DEF Expire
    <2>4. CASE provisional' = [provisional EXCEPT ![k] = NoInvite] /\ UNCHANGED rejected
      BY <2>1, <2>2, <2>4, Assign, Zenon
    <2>5. CASE rejected' = rejected \ {k} /\ UNCHANGED provisional
      BY <2>1, <2>5, Zenon
    <2> QED BY Zenon, <2>3, <2>4, <2>5
  <1>3. TypeOK'
    BY <1>1, <1>2, Zenon DEF IInv, TableSound, TypeOK
  <1> QED BY <1>1, <1>3, Frame, Zenon

(* Init satisfies the inductive invariant.                                 *)
LEMMA IInvInit == Init => IInv
  <1> SUFFICES ASSUME Init PROVE IInv
    OBVIOUS
  <1>1. /\ callID = <<>> /\ objs = <<>> /\ inProgress = <<>>
        /\ Len(callID) = 0 /\ Len(objs) = 0 /\ Len(inProgress) = 0
        /\ DOMAIN objs = {} /\ DOMAIN inProgress = {}
    BY DEF Init
  <1>2. FALSE \in BOOLEAN /\ "new" \in PCs /\ MaxInvites \in Nat /\ DigestLimit \in Nat
    BY Zenon, BoundsAssumption DEF PCs
  <1>3. /\ secret \in [Invites -> BOOLEAN] /\ superseded \in [Invites -> BOOLEAN]
        /\ pc \in [Invites -> PCs]
    BY <1>2, Zenon DEF Init
  <1>4. TypeOK
    BY <1>1, <1>2, <1>3 DEF Init, TypeOK, Invites, NoCred, BadCred
  <1>5. InviteInv
    <2> SUFFICES ASSUME NEW i \in Invites
                 PROVE  InviteOK(i)
      BY Zenon DEF InviteInv
    <2>1. pc[i] = "new" /\ cred[i] = NoCred /\ holds[i] = 0 /\ finalized[i] = 0
          /\ ~secret[i] /\ i \notin timers
      BY Zenon DEF Init
    <2> QED BY <1>1, <2>1 DEF InviteOK, Invites
  <1>6. NonceInv
    BY Zenon, <1>1 DEF NonceInv
  <1>7. SettleInv
    BY <1>1, Zenon DEF SettleInv, Init
  <1> QED BY <1>1, <1>2, <1>4, <1>5, <1>6, <1>7 DEF IInv, TableSound

(* Every reachable state of the handshake, for any Call-IDs, any number of *)
(* INVITEs and any digestLimit, satisfies the inductive invariant.         *)
THEOREM AuthInvariance == Spec => []IInv
  <1>1. IInv /\ [Next]_vars => IInv'
    <2> SUFFICES ASSUME IInv, [Next]_vars PROVE IInv'
      OBVIOUS
    <2>1. ASSUME NEW k \in CallIDs, NEW c \in {NoCred, BadCred} \cup Challenged,
                 NEW t \in ToTags(k), Receive(k, c, t)
          PROVE  IInv'
      BY Zenon, <2>1, ReceiveStep
    <2>2. ASSUME NEW i \in Invites, processInvite(i)
          PROVE  IInv'
      BY <2>2, ReplayRejectionStep, ReinviteStep, ProcessStep,
         UnavailableStep, DropFloodStep, RefuseStep, AskPasswordStep,
         AcceptAnywayStep, SkipAuthenticationStep, RememberStep, RegisterStep,
         RefuseCallStep, CallEndsStep, SupersedeStep, SendChallengeStep,
         CheckCredentialsStep, ScheduleStep, Zenon DEF processInvite
    <2>3. ASSUME NEW i \in Invites, TimerFires(i)
          PROVE  IInv'
      BY Zenon, <2>3, TimerStep
    <2>4. CASE Expire
      BY Zenon, <2>4, ExpireStep
    <2>5. CASE Terminated \/ UNCHANGED vars
      <3>1. UNCHANGED vars
        BY Zenon, <2>5 DEF Terminated
      <3>2. TypeOK'
        BY <3>1, Zenon DEF vars, IInv, TableSound, TypeOK
      <3> QED BY <3>1, <3>2, Frame, Zenon DEF vars
    <2> QED BY <2>1, <2>2, <2>3, <2>4, <2>5, Zenon DEF Next
  <1> QED BY <1>1, IInvInit, PTL DEF Spec

(* handleInviteAuth lets a call that needs a password past only with the   *)
(* digest of a challenge sent to its own Call-ID.                          *)
THEOREM AdmittedAnsweredChallengeHolds == Spec => []AdmittedAnsweredChallenge
  <1>1. IInv => AdmittedAnsweredChallenge
    BY Zenon DEF IInv, InviteInv, InviteOK, AdmittedAnsweredChallenge
  <1> QED BY <1>1, AuthInvariance, PTL

(* The state of an INVITE is finalized once, by processInvite's deferred   *)
(* update or by the timer of scheduleAuthChallengeTimeout.                 *)
THEOREM FinalizedOnceHolds == Spec => []FinalizedOnce
  <1>1. IInv => FinalizedOnce
    <2> SUFFICES ASSUME IInv, NEW i \in Invites PROVE finalized[i] <= 1
      BY Zenon DEF FinalizedOnce
    <2>1. finalized[i] \in Nat /\ InviteOK(i)
      BY Zenon DEF IInv, InviteInv, TableSound, TypeOK
    <2>2. finalized[i] # 0 => finalized[i] = 1
      BY <2>1, Zenon DEF InviteOK
    <2> QED BY <2>1, <2>2
  <1> QED BY <1>1, AuthInvariance, PTL

(* getInvite keeps inProgressInvites within digestLimit and with one entry *)
(* per Call-ID.                                                            *)
THEOREM TableSoundHolds == Spec => []TableSound
  <1>1. IInv => TableSound
    BY Zenon DEF IInv
  <1> QED BY <1>1, AuthInvariance, PTL

(* A Call-ID that was sent a 407 is given an end, by the challenge timer   *)
(* or by a later INVITE: no interleaving of getInvite, supersedeAuthState, *)
(* scheduleAuthChallengeTimeout and the timer loses it.                    *)
THEOREM ChallengeSettledHolds == Spec => []ChallengeSettled
  <1>1. IInv => ChallengeSettled
    <2> SUFFICES ASSUME IInv, NEW k \in CallIDs, NEW i \in Of(k) \cap Challenged,
                        Of(k) \cap timers = {}, \A j \in Of(k) : pc[j] = "done"
                 PROVE  \E j \in Of(k) : finalized[j] > 0
      BY Zenon DEF ChallengeSettled
    <2>0. TypeOK /\ InviteInv /\ SettleInv
      BY Zenon DEF IInv, TableSound
    <2>1. /\ Len(callID) \in Nat /\ Len(callID) <= MaxInvites /\ MaxInvites \in Nat
          /\ DOMAIN callID = 1 .. Len(callID)
      BY Zenon, <2>0, LenProperties, BoundsAssumption DEF TypeOK
    <2>2. /\ i \in Invites /\ InviteOK(i) /\ pc[i] = "done" /\ secret[i]
          /\ callID[i] = k
      BY Zenon, <2>0, <2>1 DEF Challenged, Of, InviteInv
    <2>3. holds[i] # 0 /\ objs[holds[i]].callID = k
      BY Zenon, <2>2 DEF InviteOK
    <2>4. PICK j \in Invites :
            Busy(holds[i], j) \/ (holds[j] = holds[i] /\ j \in timers)
      BY <2>0, <2>2, <2>3, Zenon DEF SettleInv
    <2>5. holds[j] = holds[i] /\ InviteOK(j)
      BY Zenon, <2>0, <2>4 DEF Busy, InviteInv
    <2>6. j \in Of(k)
      BY <2>1, <2>3, <2>5 DEF Of, InviteOK, Invites
    <2>7. finalized[j] # 0
      BY <2>4, <2>6, Zenon DEF Busy
    <2> QED BY <2>0, <2>4, <2>6, <2>7 DEF TypeOK
  <1> QED BY <1>1, AuthInvariance, PTL
=============================================================================
