------------------------- MODULE Certificates_proofs ------------------------
(***************************************************************************)
(* Proofs about Certificates, for any number of renewals.                  *)
(***************************************************************************)
EXTENDS Certificates, TLAPS

\* Every key that is kept somewhere was stored while the process ran.
KeysAreSeen ==
    /\ KeysOf(stored) \subseteq seen
    /\ \A h \in Half :
        /\ cache[h] = Nothing \/ KeysOf(cache[h]) \subseteq seen
        /\ reading[h] = NoCertificate \/ reading[h].key \in seen
    /\ context.cert = NoCertificate \/ context.cert.key \in seen

\* The inductive invariant.
IInv == RefusesForAReason /\ KeysAreSeen

LEMMA NoKeyIsNoKey == NoKey \notin Key /\ NoCertificate \notin Certificate
  BY RenewalsAssumption DEF NoKey, Key, NoCertificate, Certificate

LEMMA InitIInv == Init => IInv
<1> SUFFICES ASSUME Init PROVE IInv
  OBVIOUS
<1>1. 0 \in Key
  BY RenewalsAssumption DEF Key
<1>2. /\ issued \in Certificate /\ stored \in Pair /\ seen \subseteq Key
  BY <1>1 DEF Init, Certificate, MaybeCertificate, Pair, Issued, KeysOf
<1>3. Nothing \in Pair /\ NoCertificate \in MaybeCertificate
  BY DEF Nothing, Pair, MaybeCertificate
<1>4. TypeOK
  BY <1>2, <1>3 DEF Init, TypeOK
<1> QED
  BY <1>4 DEF IInv, RefusesForAReason, KeysAreSeen, Init, KeysOf, Nothing

\* What a Config returns: nothing, only when that is noted, or keys that were
\* stored.
Returned(pair) ==
    /\ pair \in Pair
    /\ (pair = Nothing /\ blank') \/ KeysOf(pair) \subseteq seen

\* An update with it keeps the invariant of the halves, whatever was read.
LEMMA UpdateIInv ==
  ASSUME IInv, NEW h \in Half, NEW pair, Returned(pair), Update(h, pair),
         cache' \in [Half -> Pair],
         \A k \in Half : cache'[k] = Nothing \/ KeysOf(cache'[k]) \subseteq seen,
         blank' \in BOOLEAN, blank => blank'
  PROVE  IInv'
<1> USE NoKeyIsNoKey
<1>1. /\ UNCHANGED <<backend, issued, stored, readable, up, seen>>
      /\ reading' = [reading EXCEPT ![h] = NoCertificate]
      /\ armed' = [armed EXCEPT ![h] = TRUE]
  BY DEF Update, Scheduled, storage
<1>2. /\ reading' \in [Half -> MaybeCertificate]
      /\ \A k \in Half : reading'[k] = NoCertificate \/ reading'[k].key \in seen
  BY <1>1 DEF IInv, RefusesForAReason, TypeOK, KeysAreSeen, MaybeCertificate
<1>3. /\ armed' \in [Half -> BOOLEAN]
      /\ KeysOf(stored') \subseteq seen'
  BY <1>1 DEF IInv, RefusesForAReason, TypeOK, KeysAreSeen
<1>4. pair.key \in Key \cup {NoKey} /\ pair.cert \in MaybeCertificate
  BY DEF Returned, Pair
<1>5. SUFFICES
        /\ control' \in {"starting", "valid", "invalid"} /\ context' \in Pair
        /\ restream' \in {"starting", "running", "ended"} /\ served' \in Pair
        /\ control' = "invalid" => (\E k, l \in seen : k # l) \/ blank'
        /\ context'.cert = NoCertificate \/ context'.cert.key \in seen
  BY <1>1, <1>2, <1>3 DEF IInv, RefusesForAReason, TypeOK, KeysAreSeen
<1>6. CASE h = "control" /\ UpdateControl(pair)
  <2>1. UNCHANGED <<restream, served>>
    BY <1>6 DEF UpdateControl, restreamVars
  <2>2. CASE KeyIsRefused(pair)
    <3>1. (\E k, l \in seen : k # l) \/ blank'
      <4>1. CASE pair.key = NoKey
        <5>1. ~(KeysOf(pair) \subseteq seen)
          BY <4>1 DEF KeysOf, IInv, RefusesForAReason, TypeOK
        <5> QED BY <5>1 DEF Returned
      <4>2. CASE pair.key # NoKey /\ context.cert # NoCertificate
                   /\ context.cert.key # pair.key
        <5>1. pair.key \in seen
          BY <4>2 DEF Returned, KeysOf, Nothing
        <5>2. context.cert.key \in seen
          BY <4>2 DEF IInv, KeysAreSeen
        <5> QED BY <4>2, <5>1, <5>2
      <4> QED BY <2>2, <4>1, <4>2 DEF KeyIsRefused
    <3>2. control' = "invalid"
      BY <2>2 DEF KeyIsRefused
    <3>3. context' = context \/ context' = [context EXCEPT !.cert = NoCertificate]
      BY <2>2 DEF KeyIsRefused
    <3>4. context \in Pair /\ (context.cert = NoCertificate \/ context.cert.key \in seen)
      BY DEF IInv, RefusesForAReason, TypeOK, KeysAreSeen
    <3>5. /\ context' \in Pair
          /\ context'.cert = NoCertificate \/ context'.cert.key \in seen
      BY <3>3, <3>4 DEF Pair, MaybeCertificate
    <3> QED BY <2>1, <3>1, <3>2, <3>5 DEF IInv, RefusesForAReason, TypeOK
  <2>3. CASE PairIsUsed(pair)
    <3>1. pair # Nothing
      BY <2>3 DEF PairIsUsed, Nothing
    <3>2. pair.cert.key \in seen
      BY <3>1 DEF Returned, KeysOf
    <3>3. context' = [pair EXCEPT !.key = IF pair.key = pair.cert.key
                                          THEN pair.key ELSE NoKey]
      BY <2>3 DEF PairIsUsed
    <3>4. context' \in Pair /\ context'.cert = pair.cert
      BY <1>4, <3>3 DEF Returned, Pair
    <3>5. control' = IF control = "starting" THEN "valid" ELSE control
      BY <2>3 DEF PairIsUsed, Succeeds
    <3> QED
      BY <2>1, <3>2, <3>4, <3>5 DEF IInv, RefusesForAReason, TypeOK
  <2> QED BY <1>6, <2>2, <2>3 DEF UpdateControl
<1>7. CASE h = "restream" /\ UpdateRestream(pair)
  <2>1. UNCHANGED <<control, context>>
    BY <1>7 DEF UpdateRestream, controlVars
  <2>2. restream' \in {"starting", "running", "ended"} /\ served' \in Pair
    BY <1>7 DEF UpdateRestream, Returned, IInv, RefusesForAReason, TypeOK
  <2> QED
    BY <2>1, <2>2 DEF IInv, RefusesForAReason, TypeOK, KeysAreSeen
<1> QED BY <1>6, <1>7 DEF Update

\* The administrator adds keys to those that were stored.
LEMMA StoreIInv ==
  ASSUME IInv, NEW pair \in Pair, KeysOf(pair) \subseteq Key, Store(pair),
         issued' \in Certificate
  PROVE  IInv'
<1>1. seen' = seen \cup KeysOf(pair) /\ stored' = pair
  BY DEF Store
<1>2. UNCHANGED <<backend, readable, up, cache, reading, control, context,
                  restream, served, armed, blank>>
  BY DEF Store, halves, controlVars, restreamVars
<1>3. TypeOK'
  BY <1>1, <1>2 DEF IInv, RefusesForAReason, TypeOK
<1>4. KeysAreSeen'
  BY <1>1, <1>2 DEF IInv, KeysAreSeen
<1>5. control' = "invalid" => (\E k, l \in seen' : k # l) \/ blank'
  BY <1>1, <1>2 DEF IInv, RefusesForAReason
<1> QED BY <1>3, <1>4, <1>5 DEF IInv, RefusesForAReason

LEMMA StoredKeys == IInv => stored.key \in Key /\ stored.cert.key \in Key
  BY DEF IInv, RefusesForAReason, TypeOK, KeysAreSeen, KeysOf

LEMMA ReadsIInv ==
  ASSUME IInv, NEW h \in Half, Reads(h)
  PROVE  IInv'
<1> USE NoKeyIsNoKey
<1>0. TypeOK /\ KeysAreSeen
  BY DEF IInv, RefusesForAReason
<1>1. CASE ReadCertificateFile(h)
  <2>1. reading' = [reading EXCEPT ![h] = stored.cert]
    BY <1>1 DEF ReadCertificateFile
  <2>2. stored.cert \in MaybeCertificate /\ stored.cert.key \in seen
    BY <1>0 DEF TypeOK, Pair, KeysAreSeen, KeysOf
  <2>3. UNCHANGED <<backend, issued, stored, readable, up, cache, control,
                    context, restream, served, armed, seen, blank>>
    BY <1>1 DEF ReadCertificateFile, storage, halves, controlVars, restreamVars
  <2> QED
    BY <1>0, <2>1, <2>2, <2>3
    DEF IInv, RefusesForAReason, TypeOK, KeysAreSeen
<1>2. CASE ReadKeyFile(h)
  <2> DEFINE pair == [cert |-> reading[h], key |-> stored.key]
  <2>1. cache' = [cache EXCEPT ![h] = pair] /\ Update(h, cache'[h]) /\ blank' = blank
    BY <1>2 DEF ReadKeyFile
  <2>2. pair \in Pair /\ KeysOf(pair) \subseteq seen
    BY <1>0, <1>2 DEF ReadKeyFile, TypeOK, Pair, KeysAreSeen, KeysOf
  <2>3. cache'[h] = pair /\ Returned(pair)
    BY <1>0, <2>1, <2>2 DEF TypeOK, Returned
  <2>4. /\ cache' \in [Half -> Pair]
        /\ \A k \in Half : cache'[k] = Nothing \/ KeysOf(cache'[k]) \subseteq seen
    BY <1>0, <2>1, <2>2 DEF TypeOK, KeysAreSeen
  <2> HIDE DEF pair
  <2>5. Update(h, pair) /\ blank' \in BOOLEAN
    BY <1>0, <2>1, <2>3 DEF TypeOK
  <2> QED BY <2>1, <2>3, <2>4, <2>5, UpdateIInv
<1>3. CASE FileIsMissing(h)
  <2>1. /\ cache' = [cache EXCEPT ![h] = cache[h]] /\ Update(h, cache'[h])
        /\ blank' = (blank \/ cache[h] = Nothing)
    BY <1>3 DEF FileIsMissing, Kept
  <2>2. cache' = cache
    BY <1>0, <2>1 DEF TypeOK
  <2>3. Returned(cache[h])
    BY <1>0, <2>1 DEF TypeOK, KeysAreSeen, Returned
  <2>4. /\ cache' \in [Half -> Pair]
        /\ \A k \in Half : cache'[k] = Nothing \/ KeysOf(cache'[k]) \subseteq seen
        /\ blank' \in BOOLEAN /\ (blank => blank')
    BY <1>0, <2>1, <2>2 DEF TypeOK, KeysAreSeen
  <2>5. Update(h, cache[h])
    BY <2>1, <2>2
  <2> QED BY <2>3, <2>4, <2>5, UpdateIInv
<1>4. CASE SelectCertificate(h)
  <2>1. Update(h, stored) /\ cache' = cache /\ blank' = blank
    BY <1>4 DEF SelectCertificate
  <2>2. Returned(stored)
    BY <1>0 DEF TypeOK, KeysAreSeen, Returned
  <2>3. /\ cache' \in [Half -> Pair]
        /\ \A k \in Half : cache'[k] = Nothing \/ KeysOf(cache'[k]) \subseteq seen
        /\ blank' \in BOOLEAN
    BY <1>0, <2>1 DEF TypeOK, KeysAreSeen
  <2> QED BY <2>1, <2>2, <2>3, UpdateIInv
<1>5. CASE SelectFails(h)
  <2>1. Update(h, Nothing) /\ cache' = cache /\ blank' = TRUE
    BY <1>5 DEF SelectFails
  <2>2. Returned(Nothing)
    BY <2>1 DEF Returned, Nothing, Pair, MaybeCertificate
  <2>3. /\ cache' \in [Half -> Pair]
        /\ \A k \in Half : cache'[k] = Nothing \/ KeysOf(cache'[k]) \subseteq seen
    BY <1>0, <2>1 DEF TypeOK, KeysAreSeen
  <2> QED BY <2>1, <2>2, <2>3, UpdateIInv
<1>6. CASE NotConnected(h)
  BY <1>6 DEF NotConnected, Stop, storage, halves, controlVars, restreamVars,
              IInv, RefusesForAReason, TypeOK, KeysAreSeen
<1> QED BY <1>1, <1>2, <1>3, <1>4, <1>5, <1>6 DEF Reads

LEMMA NextIInv == IInv /\ [Next]_vars => IInv'
<1> SUFFICES ASSUME IInv, [Next]_vars PROVE IInv'
  OBVIOUS
<1> USE NoKeyIsNoKey
<1>0. TypeOK /\ KeysAreSeen
  BY DEF IInv, RefusesForAReason
<1>1. ASSUME NEW key \in Key, Renew(key) PROVE IInv'
  <2>1. issued' = [serial |-> issued.serial + 1, key |-> key]
    BY <1>1 DEF Renew
  <2>2. issued' \in Certificate
    BY <1>0, <1>1, <2>1, RenewalsAssumption DEF Renew, TypeOK, Certificate, Key
  <2>3. CASE Store(Issued(issued'))
    <3>1. Issued(issued') \in Pair /\ KeysOf(Issued(issued')) \subseteq Key
      BY <2>2 DEF Issued, Pair, MaybeCertificate, KeysOf, Certificate
    <3> QED BY <2>2, <2>3, <3>1, StoreIInv
  <2>4. CASE Store([stored EXCEPT !.cert = issued'])
    <3>1. /\ [stored EXCEPT !.cert = issued'] \in Pair
          /\ KeysOf([stored EXCEPT !.cert = issued']) \subseteq Key
      BY <1>0, <2>2, StoredKeys
      DEF TypeOK, Pair, MaybeCertificate, KeysOf, Certificate
    <3> QED BY <2>2, <2>4, <3>1, StoreIInv
  <2>5. CASE Store([stored EXCEPT !.key = key])
    <3>1. /\ [stored EXCEPT !.key = key] \in Pair
          /\ KeysOf([stored EXCEPT !.key = key]) \subseteq Key
      BY <1>0, StoredKeys DEF TypeOK, Pair, KeysOf
    <3> QED BY <2>2, <2>5, <3>1, StoreIInv
  <2> QED BY <1>1, <2>3, <2>4, <2>5 DEF Renew
<1>2. CASE CompleteRenewal
  <2>1. Store(Issued(issued)) /\ issued' = issued /\ issued \in Certificate
    BY <1>0, <1>2 DEF CompleteRenewal, TypeOK
  <2>2. Issued(issued) \in Pair /\ KeysOf(Issued(issued)) \subseteq Key
    BY <2>1 DEF Issued, Pair, MaybeCertificate, KeysOf, Certificate
  <2> QED BY <2>1, <2>2, StoreIInv
<1>3. CASE ReadableChanges
  BY <1>3 DEF ReadableChanges, halves, controlVars, restreamVars,
              IInv, RefusesForAReason, TypeOK, KeysAreSeen
<1>4. CASE Start
  <2>1. /\ up' = TRUE /\ cache' = [h \in Half |-> Nothing]
        /\ reading' = [h \in Half |-> NoCertificate]
        /\ control' = "starting" /\ context' = Nothing
        /\ restream' = "starting" /\ served' = Nothing
        /\ armed' = [h \in Half |-> FALSE]
        /\ seen' = KeysOf(stored) /\ blank' = FALSE
        /\ UNCHANGED <<backend, issued, stored, readable>>
    BY <1>4 DEF Start, storage
  <2>2. Nothing \in Pair /\ NoCertificate \in MaybeCertificate
        /\ Nothing.cert = NoCertificate
    BY DEF Nothing, Pair, MaybeCertificate
  <2>3. KeysOf(stored) \subseteq Key
    BY StoredKeys DEF KeysOf
  <2>4. TypeOK'
    BY <1>0, <2>1, <2>2, <2>3 DEF TypeOK
  <2>5. KeysAreSeen'
    BY <2>1, <2>2 DEF KeysAreSeen
  <2> QED BY <2>1, <2>4, <2>5 DEF IInv, RefusesForAReason
<1>5. CASE Stop
  BY <1>5 DEF Stop, storage, halves, controlVars, restreamVars,
              IInv, RefusesForAReason, TypeOK, KeysAreSeen
<1>6. ASSUME NEW h \in Half, Reads(h) PROVE IInv'
  BY <1>6, ReadsIInv
<1>7. CASE UNCHANGED vars
  BY <1>7 DEF vars, storage, halves, controlVars, restreamVars,
              IInv, RefusesForAReason, TypeOK, KeysAreSeen
<1> QED BY <1>1, <1>2, <1>3, <1>4, <1>5, <1>6, <1>7 DEF Next

\* However many renewals there are, however they meet the reads, and whatever
\* cannot be read: a control server that refuses every box has seen two keys,
\* or found no certificate (ServerSecureContext::updateCertificate and both
\* certificate() functions).
THEOREM GivesUpForAReason == Spec => []RefusesForAReason
<1>1. Init => IInv
  BY InitIInv
<1>2. IInv /\ [Next]_vars => IInv'
  BY NextIInv
<1>3. IInv => RefusesForAReason
  BY DEF IInv
<1> QED BY <1>1, <1>2, <1>3, PTL DEF Spec
=============================================================================
