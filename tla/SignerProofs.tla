------------------------------ MODULE SignerProofs ------------------------------
(***************************************************************************)
(* Proofs about Signer, for any request threads, sources, lifetimes,       *)
(* margin and pause.  The inductive invariant relates the cached           *)
(* credential, the credentials in use and the pause to the clock.          *)
(***************************************************************************)
EXTENDS Signer, TLAPS

\* What states when a credential dies, states it right.
Dated(c) ==
    c # None => c.expires_at = IF c.source \in {"file", "endpoint"} THEN c.dies ELSE Never

\* Only the script writes the file.
FileInv == file \notin {None, Unreadable} => Dated(file) /\ file.source \in {"file", "undated"}

KnownExpiry == Dated(cached) /\ \A r \in Request : Dated(creds[r])

\* A request that is not on its way holds no credential.
IdleInv == \A r \in Request : pc[r] # "sending" => creds[r] = None /\ ~slow[r]

\* With signing off no request asks for a credential.
OffInv == mode = "off" => \A r \in Request : pc[r] \in {"idle", "sending"}

\* A credential of the endpoint lasts for the minute that may still pass.
AliveInv ==
    \A r \in Request :
        pc[r] = "sending" /\ creds[r] # None /\ creds[r].source = "endpoint" =>
            /\ creds[r].dies > now
            /\ ~slow[r] => creds[r].dies > now + 1

\* The pause is no longer than Pause after the last failure.
PauseInv ==
    /\ failed # None => failed <= now
    /\ until > 0 => failed # None /\ until <= failed + Pause
UnsignedInv ==
    \A r \in Request :
        Sending(r) /\ creds[r] = None /\ mode = "auto" =>
            /\ failed # None /\ now <= failed + Pause + 1
            /\ ~slow[r] => now <= failed + Pause

IInv ==
    /\ TypeOK /\ FileInv /\ KnownExpiry /\ IdleInv /\ OffInv /\ AliveInv /\ PauseInv
    /\ UnsignedInv
    /\ RequiredIsSigned
    /\ KeptOnlyUndated

-----------------------------------------------------------------------------
\* What credentials() loads is a credential, and a live one if the endpoint gave it.
LEMMA LoadableIsCredential ==
    ASSUME TypeOK, FileInv, NEW c \in Loadable
    PROVE  /\ c \in Credential /\ c # None
           /\ Dated(c)
           /\ c.source = "endpoint" => c.dies > now + 1
           /\ c = file \/ c.expires_at = Never \/ c.dies > now
  <1>1. /\ now \in Nat /\ now <= MaxTime /\ now + 2 \in Expiry /\ now + Life \in Expiry
        /\ Life \in Expiry /\ Life > 2
    BY SignerAssumption DEF TypeOK, Time, Expiry
  <1>2. CASE Readable
    <2>1. c = file /\ c \in Credential /\ Dated(c) /\ c.source \in {"file", "undated"}
      BY <1>2 DEF Loadable, Readable, TypeOK, FileInv
    <2> QED
      BY <2>1, SignerAssumption
  <1>3. CASE ~Readable /\ "env" \in Sources
    <2>1. c.expires_at = Never /\ c.source = "env" /\ c \in Credential
      BY <1>1, <1>3 DEF Loadable, FromEnv, Credential
    <2> QED
      BY <1>3, <2>1, SignerAssumption DEF Dated
  <1>4. CASE ~Readable /\ "env" \notin Sources
    <2>1. "endpoint" \in Sources /\ c \in FromEndpoint
      BY <1>4 DEF Loadable
    <2>2. PICK t \in {now + 2, now + Life} :
             c = [dies |-> t, expires_at |-> t, source |-> "endpoint"]
      BY <2>1 DEF FromEndpoint
    <2>3. c.dies = t /\ c.expires_at = t /\ c.source = "endpoint" /\ c \in Credential
      BY <1>1, <2>1, <2>2 DEF Credential
    <2> QED
      BY <1>1, <2>2, <2>3, SignerAssumption DEF Dated
  <1> QED
    BY <1>2, <1>3, <1>4

\* The cached credential that is handed out is not about to die.
LEMMA UsableIsAlive ==
    ASSUME TypeOK, KnownExpiry, Usable
    PROVE  /\ cached \in Credential /\ cached # None
           /\ Dated(cached)
           /\ cached.source = "endpoint" => cached.dies > now + 1
           /\ cached.expires_at = Never \/ cached.dies > now
  BY SignerAssumption
  DEF TypeOK, KnownExpiry, Dated, Usable, Fresh, Credential, Expiry, Time, Never

LEMMA InitIInv == Init => IInv
  BY SignerAssumption
  DEF Init, IInv, TypeOK, FileInv, KnownExpiry, Dated, IdleInv, OffInv, AliveInv, PauseInv, UnsignedInv, Sending,
      RequiredIsSigned, KeptOnlyUndated, Time, Expiry

-----------------------------------------------------------------------------
(* The steps *)

LEMMA TickKeeps == IInv /\ Tick => IInv'
  <1> SUFFICES ASSUME IInv, Tick PROVE IInv'
    OBVIOUS
  <1> USE SignerAssumption DEF IInv, Tick
  <1>1. now \in Nat /\ now' = now + 1 /\ now' \in Time
    BY DEF TypeOK, Time
  <1>2. TypeOK'
    BY <1>1 DEF TypeOK
  <1>3. FileInv' /\ KnownExpiry' /\ RequiredIsSigned'
    BY DEF FileInv, KnownExpiry, RequiredIsSigned, Sending
  <1>4. IdleInv' /\ OffInv'
    BY DEF IdleInv, OffInv, TypeOK
  <1>5. ASSUME NEW r \in Request, pc[r] = "sending", creds[r] # None, creds[r].source = "endpoint"
        PROVE  slow'[r] /\ creds[r].dies > now + 1
    BY <1>5 DEF AliveInv, TypeOK
  <1>6. AliveInv'
    <2> SUFFICES ASSUME NEW r \in Request, pc[r] = "sending", creds[r] # None,
                        creds[r].source = "endpoint"
                 PROVE  slow'[r] /\ creds[r].dies > now'
      BY DEF AliveInv
    <2> QED
      BY <1>1, <1>5
  <1>7. PauseInv' /\ UnsignedInv'
    BY <1>1 DEF PauseInv, UnsignedInv, Sending, TypeOK, Time
  <1>8. KeptOnlyUndated'
    BY DEF KeptOnlyUndated
  <1> QED
    BY <1>2, <1>3, <1>4, <1>6, <1>7, <1>8

LEMMA CopyFileKeeps == IInv /\ CopyFile => IInv'
  <1> SUFFICES ASSUME IInv, CopyFile PROVE IInv'
    OBVIOUS
  <1>0. /\ now \in Nat /\ now <= MaxTime /\ now + Life \in Expiry /\ Life \in Nat
    BY SignerAssumption DEF IInv, TypeOK, Time, Expiry
  <1>1. file' \in {None, Unreadable} \union Credential /\ FileInv'
    <2>1. PICK s \in Sources \intersect {"file", "undated"} :
             file' = IF file # Unreadable THEN Unreadable
                     ELSE [dies |-> now + Life, source |-> s,
                           expires_at |-> IF s = "file" THEN now + Life ELSE Never]
      BY DEF CopyFile
    <2>2. CASE file # Unreadable
      BY <2>1, <2>2 DEF FileInv
    <2>3. CASE file = Unreadable
      <3>1. file'.source = s /\ file'.dies = now + Life
            /\ file'.expires_at = (IF s = "file" THEN now + Life ELSE Never)
            /\ file' \in Credential
        BY <1>0, <2>1, <2>3 DEF Credential
      <3> QED
        BY <2>1, <3>1 DEF FileInv, Dated
    <2> QED
      BY <2>2, <2>3
  <1> QED
    BY <1>1 DEF IInv, CopyFile, TypeOK, KnownExpiry, IdleInv, OffInv, AliveInv, PauseInv, UnsignedInv,
                RequiredIsSigned, KeptOnlyUndated, Sending

\* A request that neither takes the lock nor is given anything.
LEMMA ArriveKeeps == ASSUME IInv, NEW r \in Request, Arrive(r) PROVE IInv'
  <1> USE DEF IInv, Arrive
  <1>1. PICK p \in BOOLEAN :
           /\ private' = [private EXCEPT ![r] = p]
           /\ pc' = [pc EXCEPT ![r] = IF p /\ mode # "off" THEN "lock" ELSE "sending"]
    OBVIOUS
  <1>2. TypeOK'
    BY <1>1 DEF TypeOK
  <1>3. creds[r] = None /\ ~slow[r] /\ (pc'[r] = "sending" => ~private'[r] \/ mode = "off")
    BY <1>1 DEF IdleInv, TypeOK
  <1>4. FileInv' /\ KnownExpiry' /\ IdleInv' /\ OffInv' /\ PauseInv' /\ KeptOnlyUndated'
    BY <1>1 DEF TypeOK, FileInv, KnownExpiry, IdleInv, OffInv, PauseInv, KeptOnlyUndated
  <1>5. AliveInv'
    BY <1>1, <1>3 DEF TypeOK, AliveInv
  <1>6. UnsignedInv' /\ RequiredIsSigned'
    BY <1>1, <1>3 DEF TypeOK, UnsignedInv, RequiredIsSigned, Sending
  <1> QED
    BY <1>2, <1>4, <1>5, <1>6

LEMMA BeginLoadKeeps == ASSUME IInv, NEW r \in Request, BeginLoad(r) PROVE IInv'
  BY SignerAssumption
  DEF IInv, BeginLoad, TypeOK, FileInv, KnownExpiry, IdleInv, OffInv, AliveInv, PauseInv, UnsignedInv,
      RequiredIsSigned, KeptOnlyUndated, Sending

LEMMA SendKeeps == ASSUME IInv, NEW r \in Request, Send(r) PROVE IInv'
  BY SignerAssumption
  DEF IInv, Send, TypeOK, FileInv, KnownExpiry, Dated, IdleInv, OffInv, AliveInv, PauseInv, UnsignedInv,
      RequiredIsSigned, KeptOnlyUndated, Sending

\* What a step that gives request r an answer leaves of the invariant.
Given(r) ==
    /\ IdleInv' /\ AliveInv' /\ UnsignedInv' /\ RequiredIsSigned'
    /\ \A q \in Request : Dated(creds'[q])
    /\ KeptOnlyUndated'
    /\ pc' \in [Request -> {"idle", "lock", "load", "sending"}] /\ pc'[r] = "sending"
    /\ creds' \in [Request -> Credential \union {None}]
    /\ missed' \in [Request -> BOOLEAN]
    /\ \A q \in Request : q # r => pc'[q] = pc[q]

\* The hand-over to a request that holds no credential: what is to be shown of
\* the credential c, or of sending the request unsigned.
LEMMA GiveKeeps ==
    ASSUME IInv, NEW r \in Request, NEW c \in Credential \union {None}, Give(r, c),
           pc[r] # "sending",
           UNCHANGED <<now, mode, file, private, slow>>,
           c # None /\ c.source = "endpoint" => c.dies > now + 1,
           c = None => mode = "auto" /\ failed' # None /\ failed' \in Time /\ now <= failed' + Pause,
           failed # None => failed' # None /\ failed <= failed' /\ failed' \in Time,
           Dated(c), c = None \/ c.expires_at = Never \/ c.dies > now \/ c = file
    PROVE  Given(r)
  <1> USE DEF IInv, Give, TypeOK
  <1>1. now \in Nat /\ ~slow[r] /\ Pause \in Nat /\ (failed # None => failed \in Nat)
    BY SignerAssumption DEF IdleInv, Time
  <1>2. IdleInv'
    BY DEF IdleInv
  <1>3. AliveInv'
    BY <1>1, SignerAssumption DEF AliveInv, Credential, Expiry
  <1>4. UnsignedInv' /\ RequiredIsSigned'
    BY <1>1 DEF UnsignedInv, RequiredIsSigned, Sending, Time
  <1>5. KeptOnlyUndated'
    BY <1>1, SignerAssumption DEF KeptOnlyUndated, Dead, FileIsLive, Credential, Expiry
  <1>6. missed' \in [Request -> BOOLEAN]
    BY DEF Dead, FileIsLive
  <1>7. \A q \in Request : Dated(creds'[q])
    BY DEF KnownExpiry
  <1> QED
    BY <1>2, <1>3, <1>4, <1>5, <1>6, <1>7 DEF Given

LEMMA AnswerKeeps == ASSUME IInv, NEW r \in Request, Answer(r) PROVE IInv'
  <1> USE DEF IInv, Answer
  <1>1. CASE Paused /\ Give(r, None)
    <2>1. mode = "auto" /\ failed # None /\ failed \in Time /\ now <= failed + Pause
      BY <1>1, SignerAssumption DEF Paused, PauseInv, TypeOK, Time
    <2>2. Given(r)
      BY <1>1, <2>1, GiveKeeps DEF TypeOK, Time, Dated
    <2> QED
      BY <2>2 DEF Given, TypeOK, FileInv, KnownExpiry, OffInv, PauseInv
  <1>2. CASE ~Paused /\ Usable /\ Give(r, cached)
    <2>1. /\ cached \in Credential /\ cached # None
          /\ cached.source = "endpoint" => cached.dies > now + 1
          /\ Dated(cached)
          /\ cached.expires_at = Never \/ cached.dies > now
          /\ cached.dies \in Nat /\ now \in Nat
      BY <1>2, UsableIsAlive, SignerAssumption DEF TypeOK, Credential, Time, Expiry
    <2>2. Given(r)
      BY <1>2, <2>1, GiveKeeps DEF TypeOK, Time
    <2> QED
      BY <2>2 DEF Given, TypeOK, FileInv, KnownExpiry, OffInv, PauseInv
  <1> QED
    BY <1>1, <1>2

LEMMA LoadedKeeps == ASSUME IInv, NEW r \in Request, Loaded(r) PROVE IInv'
  <1>1. TypeOK /\ FileInv
    BY DEF IInv
  <1>2. PICK c \in Loadable : cached' = c /\ Give(r, c)
    BY DEF Loaded
  <1>3. /\ c \in Credential /\ c # None
        /\ Dated(c)
        /\ c.source = "endpoint" => c.dies > now + 1
        /\ c = file \/ c.expires_at = Never \/ c.dies > now
    BY <1>1, LoadableIsCredential
  <1>7. Given(r)
    <2>1. /\ pc[r] # "sending" /\ UNCHANGED <<now, mode, file, private, slow, failed>>
          /\ failed # None => failed \in Time /\ failed <= failed
      BY <1>1, SignerAssumption DEF Loaded, TypeOK, Time
    <2> QED
      BY <1>2, <1>3, <2>1, GiveKeeps
  <1> QED
    BY <1>1, <1>2, <1>3, <1>7, SignerAssumption
    DEF Given, IInv, Loaded, TypeOK, FileInv, KnownExpiry, OffInv, PauseInv

\* In mode "required" the request ends; else it goes out unsigned, with the
\* failure just behind it.
LEMMA LoadFailsKeeps == ASSUME IInv, NEW r \in Request, LoadFails(r) PROVE IInv'
  <1> USE DEF IInv, LoadFails
  <1>1. now \in Time /\ now \in Nat /\ failed' = now /\ now # None /\ Pause \in Nat
        /\ (failed # None => failed <= now)
    BY SignerAssumption DEF TypeOK, PauseInv, Time
  <1>2. CASE Raises
    <2>1. TypeOK' /\ FileInv' /\ KnownExpiry' /\ IdleInv' /\ OffInv' /\ AliveInv'
      BY <1>1, <1>2, SignerAssumption DEF Raises, TypeOK, FileInv, KnownExpiry, IdleInv, OffInv,
                                                      AliveInv
    <2>2. PauseInv'
      BY <1>1, <1>2, SignerAssumption DEF Raises, PauseInv, TypeOK, Time
    <2>3. UnsignedInv' /\ RequiredIsSigned' /\ KeptOnlyUndated'
      BY <1>1, <1>2 DEF Raises, UnsignedInv, RequiredIsSigned, KeptOnlyUndated, Sending, TypeOK
    <2> QED
      BY <2>1, <2>2, <2>3
  <1>3. CASE ~Raises /\ mode = "auto"
    <2>1. Give(r, None) /\ until' = now + Pause
      BY <1>3 DEF NextTry
    <2>2. Given(r)
      BY <1>1, <1>3, <2>1, GiveKeeps, SignerAssumption DEF TypeOK, Time, Dated
    <2>3. until' \in 0 .. (MaxTime + Pause)
      BY <1>1, <2>1, SignerAssumption DEF Time
    <2> QED
      BY <1>1, <2>1, <2>2, <2>3, SignerAssumption DEF Given, TypeOK, FileInv, KnownExpiry, OffInv, PauseInv
  <1> QED
    BY <1>2, <1>3 DEF Raises, TypeOK, OffInv

-----------------------------------------------------------------------------
LEMMA NextKeeps == IInv /\ [Next]_vars => IInv'
  <1> SUFFICES ASSUME IInv, [Next]_vars PROVE IInv'
    OBVIOUS
  <1>1. CASE Tick
    BY <1>1, TickKeeps
  <1>2. CASE CopyFile
    BY <1>2, CopyFileKeeps
  <1>3. ASSUME NEW r \in Request,
               Arrive(r) \/ Answer(r) \/ BeginLoad(r) \/ Loaded(r) \/ LoadFails(r) \/ Send(r)
        PROVE  IInv'
    BY <1>3, ArriveKeeps, AnswerKeeps, BeginLoadKeeps, LoadedKeeps, LoadFailsKeeps, SendKeeps
  <1>4. CASE UNCHANGED vars
    BY <1>4 DEF vars, IInv, TypeOK, FileInv, KnownExpiry, IdleInv, OffInv, AliveInv, PauseInv,
                UnsignedInv, RequiredIsSigned, KeptOnlyUndated, Sending
  <1> QED
    BY <1>1, <1>2, <1>3, <1>4 DEF Next

\* The invariant that the properties below follow from.
THEOREM Invariant == Spec => []IInv
  <1> QED
    BY InitIInv, NextKeeps, PTL DEF Spec

\* Every variable keeps its type, and the request that loads is the one that
\* holds _CREDENTIALS_LOCK.
THEOREM TypeCorrect == Spec => []TypeOK
  <1>1. IInv => TypeOK
    BY DEF IInv
  <1> QED
    BY <1>1, Invariant, PTL

\* A credential of the endpoint is alive when S3 looks at the signature, for
\* any margin above the minute that may pass.
THEOREM NoDeadSignature == Spec => []SignedAlive
  <1>1. IInv => SignedAlive
    BY SignerAssumption
    DEF IInv, AliveInv, SignedAlive, Sending, Dead, TypeOK, Credential, Expiry, Time
  <1> QED
    BY <1>1, Invariant, PTL

\* In mode "auto" a request is unsigned only in the pause after a failed load.
THEOREM SigningResumes == Spec => []UnsignedMeansFailed
  <1>1. IInv => UnsignedMeansFailed
    BY DEF IInv, UnsignedInv, UnsignedMeansFailed
  <1> QED
    BY <1>1, Invariant, PTL

\* In mode "required" a failed load never lets a request out unsigned.
THEOREM NeverUnsigned == Spec => []RequiredIsSigned
  <1>1. IInv => RequiredIsSigned
    BY DEF IInv
  <1> QED
    BY <1>1, Invariant, PTL

\* Whatever the sources, a dead credential that hides a live one in the
\* refreshed file is one that stated no Expiration.
THEOREM OnlyUndatedKept == Spec => []KeptOnlyUndated
  <1>1. IInv => KeptOnlyUndated
    BY DEF IInv
  <1> QED
    BY <1>1, Invariant, PTL

\* Where no credential comes from the environment and the exported file always
\* states an Expiration, the refreshed file is picked up.
THEOREM FilePickedUp ==
    ASSUME "env" \notin Sources, "undated" \notin Sources
    PROVE  Spec => []FileIsPickedUp
  <1>1. ASSUME IInv, NEW r \in Request, missed[r] PROVE FALSE
    <2>1. creds[r] # None /\ creds[r].expires_at = Never /\ creds[r] \in Credential
      BY <1>1 DEF IInv, KeptOnlyUndated, TypeOK
    <2>2. creds[r].source \in {"file", "endpoint"}
      BY <2>1, SignerAssumption DEF Credential, AnySource
    <2>3. creds[r].dies = Never
      BY <1>1, <2>1, <2>2 DEF IInv, KnownExpiry, Dated
    <2> QED
      BY <2>1, <2>3, SignerAssumption DEF Credential, Expiry, Never
  <1>2. IInv => FileIsPickedUp
    BY <1>1 DEF FileIsPickedUp
  <1> QED
    BY <1>2, Invariant, PTL
=============================================================================
