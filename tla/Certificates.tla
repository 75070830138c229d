---------------------------- MODULE Certificates ----------------------------
(***************************************************************************)
(* The server's certificate and private key: how FileConfig and PGConfig   *)
(* read them while an administrator renews them, and what the control      *)
(* server (ServerSecureContext) and the restream server do with what they  *)
(* get, at their start and once a day.                                     *)
(*                                                                         *)
(* A certificate is a serial number and the number of the key it is for.   *)
(* OpenSSL, the file system, PostgreSQL and the administrator are external.*)
(***************************************************************************)
EXTENDS Naturals

CONSTANT MaxRenewals    \* bounds the administrator

ASSUME RenewalsAssumption == MaxRenewals \in Nat

Half == {"control", "restream"}     \* each has its Config, see clone()
NoKey == MaxRenewals + 1
Key == 0 .. MaxRenewals
Certificate == [serial : Key, key : Key]
NoCertificate == [serial |-> NoKey, key |-> NoKey]
MaybeCertificate == Certificate \cup {NoCertificate}

\* What a read of both gives: they need not belong together.
Pair == [cert : MaybeCertificate, key : Key \cup {NoKey}]
Nothing == [cert |-> NoCertificate, key |-> NoKey]
Issued(certificate) == [cert |-> certificate, key |-> certificate.key]

VARIABLES
    backend,    \* FileConfig or PGConfig
    issued,     \* the certificate that the authority gave last
    stored,     \* the pair on the disk, or in the table SERVER
    readable,   \* the files can be read, the database can be reached
    up,         \* the process runs
    cache,      \* FileConfig::_certificate, of each Config
    reading,    \* the certificate that certificate() has read, before the key
    control,    \* the control server: ServerSecureContext::_valid
    context,    \* and the pair in its SSL_CTX
    restream,   \* the restream server's thread
    served,     \* and the pair it was given
    armed,      \* _updateCertificateTimer of each half
    seen,       \* keys stored since the process started (history)
    blank       \* an update of this process found nothing (history)

storage == <<backend, issued, stored, readable>>
controlVars == <<control, context>>
restreamVars == <<restream, served>>
halves == <<controlVars, restreamVars, armed>>
vars == <<storage, up, cache, reading, halves, seen, blank>>

TypeOK ==
    /\ backend \in {"file", "pg"}
    /\ issued \in Certificate
    /\ stored \in Pair
    /\ readable \in BOOLEAN
    /\ up \in BOOLEAN
    /\ cache \in [Half -> Pair]
    /\ reading \in [Half -> MaybeCertificate]
    /\ control \in {"starting", "valid", "invalid"}
    /\ context \in Pair
    /\ restream \in {"starting", "running", "ended"}
    /\ served \in Pair
    /\ armed \in [Half -> BOOLEAN]
    /\ seen \subseteq Key
    /\ blank \in BOOLEAN

KeysOf(pair) == {pair.key, pair.cert.key}

Init ==
    /\ backend \in {"file", "pg"}
    /\ issued = [serial |-> 0, key |-> 0]
    /\ stored = Issued(issued)
    /\ readable \in BOOLEAN
    /\ up = FALSE
    /\ cache = [h \in Half |-> Nothing]
    /\ reading = [h \in Half |-> NoCertificate]
    /\ control = "starting"
    /\ context = Nothing
    /\ restream = "starting"
    /\ served = Nothing
    /\ armed = [h \in Half |-> FALSE]
    /\ seen = KeysOf(stored)
    /\ blank = FALSE

-----------------------------------------------------------------------------
(* The administrator.  A row is replaced at once, two files one by one.    *)

Store(pair) ==
    /\ stored' = pair
    /\ seen' = seen \cup KeysOf(pair)
    /\ UNCHANGED <<backend, readable, up, cache, reading, halves, blank>>

\* For the old key, or for a new one.
Renew(key) ==
    /\ stored = Issued(issued)
    /\ issued.serial < MaxRenewals
    /\ key \in {issued.key, issued.serial + 1}
    /\ issued' = [serial |-> issued.serial + 1, key |-> key]
    /\ \/ backend = "pg" /\ Store(Issued(issued'))
       \/ backend = "file" /\ Store([stored EXCEPT !.cert = issued'])
       \/ backend = "file" /\ Store([stored EXCEPT !.key = key])

CompleteRenewal ==
    /\ stored # Issued(issued)
    /\ Store(Issued(issued))
    /\ UNCHANGED issued

ReadableChanges ==
    /\ readable' = ~readable
    /\ UNCHANGED <<backend, issued, stored, up, cache, reading, halves, seen,
                   blank>>

-----------------------------------------------------------------------------
(* The process: ServerMain constructs both servers, then runs them.        *)

Start ==
    /\ ~up
    /\ up' = TRUE
    /\ cache' = [h \in Half |-> Nothing]
    /\ reading' = [h \in Half |-> NoCertificate]
    /\ control' = "starting"
    /\ context' = Nothing
    /\ restream' = "starting"
    /\ served' = Nothing
    /\ armed' = [h \in Half |-> FALSE]
    /\ seen' = KeysOf(stored)
    /\ blank' = FALSE
    /\ UNCHANGED storage

Stop ==
    /\ up
    /\ up' = FALSE
    /\ UNCHANGED <<storage, cache, reading, halves, seen, blank>>

-----------------------------------------------------------------------------
(* ServerSecureContext::updateCertificate.                                 *)

Succeeds == control' = IF control = "starting" THEN "valid" ELSE control

\* use_private_key fails without a key, or when the context has a certificate
\* for another one, which some versions of OpenSSL then drop.
KeyIsRefused(pair) ==
    /\ \/ pair.key = NoKey
       \/ context.cert # NoCertificate /\ context.cert.key # pair.key
    /\ control' = "invalid"
    /\ \/ UNCHANGED context
       \/ /\ pair.key # NoKey
          /\ context' = [context EXCEPT !.cert = NoCertificate]

\* use_certificate_chain drops a private key that is not the certificate's.
PairIsUsed(pair) ==
    /\ pair.key # NoKey
    /\ context.cert \in {NoCertificate} \cup [serial : Key, key : {pair.key}]
    /\ context' = [pair EXCEPT !.key = IF @ = pair.cert.key THEN @ ELSE NoKey]
    /\ Succeeds

\* Mutant: only the first time.
ScheduledOnce(h) == UNCHANGED armed

\* scheduleUpdateCertificate, after every update and at the start.
Scheduled(h) == armed' = [armed EXCEPT ![h] = TRUE]

UpdateControl(pair) ==
    /\ KeyIsRefused(pair) \/ PairIsUsed(pair)
    /\ UNCHANGED restreamVars

\* RestreamServer's updateCertificate.  serverMain returns if its first one
\* fails, and nothing runs it again.
UpdateRestream(pair) ==
    /\ \/ /\ pair = Nothing
          /\ restream' = IF restream = "starting" THEN "ended" ELSE restream
          /\ UNCHANGED served
       \/ /\ pair # Nothing
          /\ restream' = IF restream = "starting" THEN "running" ELSE restream
          /\ served' = pair
    /\ UNCHANGED controlVars

\* The whole update of one half with what its Config returned.
Update(h, pair) ==
    /\ reading' = [reading EXCEPT ![h] = NoCertificate]
    /\ \/ h = "control" /\ UpdateControl(pair)
       \/ h = "restream" /\ UpdateRestream(pair)
    /\ Scheduled(h)
    /\ UNCHANGED <<storage, up, seen>>

-----------------------------------------------------------------------------
(* Config::certificate.                                                    *)

\* The constructor of the control server comes first.  Later updates are those
\* of the two timers, both on the io thread, so one ends before the other
\* begins; the first of them is a day away from the start.
Due(h) ==
    /\ up
    /\ reading[h] = NoCertificate
    /\ \/ h = "control" /\ control = "starting"
       \/ h = "restream" /\ restream = "starting" /\ control # "starting"
       \/ /\ armed[h]
          /\ restream # "starting"
          /\ \A other \in Half : reading[other] = NoCertificate

\* g_file_get_contents of the first file.
ReadCertificateFile(h) ==
    /\ backend = "file"
    /\ Due(h)
    /\ readable
    /\ reading' = [reading EXCEPT ![h] = stored.cert]
    /\ UNCHANGED <<storage, up, cache, halves, seen, blank>>

\* And of the second: _certificate is replaced when both have been read.
ReadKeyFile(h) ==
    /\ up
    /\ reading[h] # NoCertificate
    /\ readable
    /\ cache' = [cache EXCEPT ![h] = [cert |-> reading[h], key |-> stored.key]]
    /\ Update(h, cache'[h])
    /\ UNCHANGED blank

\* Mutant: the certificate is assigned before the key is read.
KeptWithoutKey(h) ==
    IF reading[h] = NoCertificate THEN cache[h]
    ELSE [cert |-> reading[h], key |-> NoKey]

\* What certificate() returns when a file cannot be read.
Kept(h) == cache[h]

FileIsMissing(h) ==
    /\ backend = "file"
    /\ ~readable
    /\ Due(h) \/ (up /\ reading[h] # NoCertificate)
    /\ cache' = [cache EXCEPT ![h] = Kept(h)]
    /\ Update(h, cache'[h])
    /\ blank' = (blank \/ cache[h] = Nothing)

\* select CERTIFICATE from SERVER
SelectCertificate(h) ==
    /\ backend = "pg"
    /\ Due(h)
    /\ readable
    /\ Update(h, stored)
    /\ UNCHANGED <<cache, blank>>

\* The connection is there, but the query fails.
SelectFails(h) ==
    /\ backend = "pg"
    /\ Due(h)
    /\ ~readable
    /\ Update(h, Nothing)
    /\ blank' = TRUE
    /\ UNCHANGED cache

\* No connection: the std::string made from nullptr throws, and nobody
\* catches it.
NotConnected(h) ==
    /\ backend = "pg"
    /\ Due(h)
    /\ ~readable
    /\ Stop

Reads(h) ==
    \/ ReadCertificateFile(h) \/ ReadKeyFile(h) \/ FileIsMissing(h)
    \/ SelectCertificate(h) \/ SelectFails(h) \/ NotConnected(h)

-----------------------------------------------------------------------------
Next ==
    \/ \E key \in Key : Renew(key)
    \/ CompleteRenewal
    \/ ReadableChanges
    \/ Start
    \/ Stop
    \/ \E h \in Half : Reads(h)

Spec == Init /\ [][Next]_vars

\* Threads run and timers expire; the io thread takes the timers in turn.
FairSpec == Spec /\ \A h \in Half : SF_vars(Reads(h))

-----------------------------------------------------------------------------
(* Properties.                                                             *)

\* The control server refuses every box from then on (onNewConnection) only
\* if the key was changed while it ran, or an update found no certificate:
\* never after renewals for one key, however they meet the reads, nor for
\* files that are missing after it has read them once.
RefusesForAReason ==
    /\ TypeOK
    /\ control = "invalid" => (\E k, l \in seen : k # l) \/ blank

\* The renewal is over, the storage can be read, the process runs.
Settled(certificate) ==
    issued = certificate /\ stored = Issued(issued) /\ readable /\ up

ControlServes == control = "invalid" \/ context = Issued(issued)
RestreamServes == restream = "ended" \/ served = Issued(issued)

\* A certificate that stays reaches both servers, also when an update met the
\* renewal half-way and took a pair that does not match, except a server that
\* has given up.
RenewalIsServed ==
    \A certificate \in Certificate :
        Settled(certificate) ~>
            ~Settled(certificate) \/ (ControlServes /\ RestreamServes)
=============================================================================
