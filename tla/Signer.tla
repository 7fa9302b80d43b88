-------------------------------- MODULE Signer --------------------------------
(***************************************************************************)
(* The credentials of the S3 signing proxy, etc/s3_sigv4_proxy.py: the     *)
(* cache that its request threads share under _CREDENTIALS_LOCK, the       *)
(* sources it is filled from, and the script scripts/                      *)
(* auto_refresh_credentials.sh that writes one of them.                    *)
(*                                                                         *)
(* A credential is the time at which AWS stops accepting it, the time the  *)
(* signer believes it does, and where it came from.  Time is in minutes.   *)
(* The call of credentials() takes seconds (METADATA_TIMEOUT), so the      *)
(* clock stands still for a thread between the lock and the answer; a      *)
(* minute may pass from there until S3 looks at the signature.             *)
(***************************************************************************)
EXTENDS Naturals, FiniteSets

CONSTANTS
    Request,  \* request threads: the bound on how many run at once
    Sources,  \* those of the deployment: a subset of AnySource
    Life,     \* minutes from the issue of a temporary credential to its expiry
    Margin,   \* 300 seconds
    Pause,    \* 60 seconds
    MaxTime,  \* the bound on the clock
    Unreadable,  \* a file that is empty or half written
    None      \* no credential, no file, no holder

Never == 0  \* expires_at of a credential without an Expiration
Time  == 0 .. MaxTime
Expiry == 1 .. (MaxTime + Life)
AnySource == {"file", "undated", "env", "endpoint"}  \* "undated": a file that states no Expiration
Credential == [dies : Expiry, expires_at : {Never} \union Expiry, source : Sources]

ASSUME SignerAssumption ==
    /\ Sources \subseteq AnySource
    /\ Life \in Nat /\ Margin \in Nat /\ Pause \in Nat /\ MaxTime \in Nat
    /\ Pause > 0 /\ Margin > 1 /\ Life > Margin
    /\ None \notin Request /\ None \notin Nat /\ None \notin Credential
    /\ Unreadable \notin Credential \union {None}

VARIABLES
    now,
    mode,      \* SIGNING_MODE
    file,      \* /tmp/aws_credentials.json: its credential, Unreadable or None
    cached,    \* _CREDENTIALS
    until,     \* _NO_CREDENTIALS_UNTIL
    holder,    \* the request that holds _CREDENTIALS_LOCK
    pc,        \* what each request does: "idle", "lock", "load", "sending"
    private,   \* whether its bucket is outside PUBLIC_BUCKETS
    creds,     \* what it signs with
    slow,      \* whether a minute has passed since credentials() answered
    failed,    \* history: the time of the last load that failed
    missed     \* history: it was given a dead credential while the file held a live one

vars == <<now, mode, file, cached, until, holder, pc, private, creds, slow, failed, missed>>

TypeOK ==
    /\ now \in Time
    /\ mode \in {"auto", "required", "off"}
    /\ file \in {None, Unreadable} \union Credential
    /\ cached \in Credential \union {None}
    /\ until \in 0 .. (MaxTime + Pause)
    /\ holder \in Request \union {None}
    /\ pc \in [Request -> {"idle", "lock", "load", "sending"}]
    /\ private \in [Request -> BOOLEAN]
    /\ creds \in [Request -> Credential \union {None}]
    /\ slow \in [Request -> BOOLEAN] /\ missed \in [Request -> BOOLEAN]
    /\ failed \in Time \union {None}
    /\ \A r \in Request : pc[r] = "load" <=> holder = r

Init ==
    /\ now = 0 /\ mode \in {"auto", "required", "off"}
    /\ file = None /\ cached = None /\ until = 0 /\ holder = None
    /\ pc = [r \in Request |-> "idle"]
    /\ private = [r \in Request |-> FALSE]
    /\ creds = [r \in Request |-> None]
    /\ slow = [r \in Request |-> FALSE] /\ missed = [r \in Request |-> FALSE]
    /\ failed = None

-----------------------------------------------------------------------------
(* The clock and the file *)

Tick ==
    /\ now < MaxTime /\ holder = None
    /\ \A r \in Request : pc[r] = "sending" => ~slow[r]
    /\ now' = now + 1
    /\ slow' = [r \in Request |-> pc[r] = "sending"]
    /\ UNCHANGED <<mode, file, cached, until, holder, pc, private, creds, failed, missed>>

\* docker cp replaces the file: a reader may find it empty or half written,
\* then it holds the credential the session has just exported, with or
\* without an Expiration: the script looks for the two keys only.
CopyFile ==
    /\ \E s \in Sources \intersect {"file", "undated"} :
          file' = IF file # Unreadable THEN Unreadable
                  ELSE [dies |-> now + Life, source |-> s,
                        expires_at |-> IF s = "file" THEN now + Life ELSE Never]
    /\ UNCHANGED <<now, mode, cached, until, holder, pc, private, creds, slow, failed, missed>>

-----------------------------------------------------------------------------
(* credentials() *)

\* A request that needs no credential goes out as it is.
Arrive(r) ==
    /\ pc[r] = "idle"
    /\ \E p \in BOOLEAN :
          /\ private' = [private EXCEPT ![r] = p]
          /\ pc' = [pc EXCEPT ![r] = IF p /\ mode # "off" THEN "lock" ELSE "sending"]
    /\ UNCHANGED <<now, mode, file, cached, until, holder, creds, slow, failed, missed>>

Dead(c) == c.dies <= now
FileIsLive == file \notin {None, Unreadable} /\ ~Dead(file)

\* The request leaves credentials() with c; the lock is free again.
Give(r, c) ==
    /\ pc' = [pc EXCEPT ![r] = "sending"]
    /\ creds' = [creds EXCEPT ![r] = c]
    /\ missed' = [missed EXCEPT ![r] = c # None /\ Dead(c) /\ FileIsLive]

AnyExpiry(c) == TRUE  \* faulty: a cached credential is kept for good
NoMargin(c) == c.expires_at = Never \/ c.expires_at > now  \* faulty: used to the last second
Fresh(c) == c.expires_at = Never \/ c.expires_at > now + Margin

Paused == mode = "auto" /\ now < until
Usable == cached # None /\ Fresh(cached)

\* The checks of credentials() that answer at once.
Answer(r) ==
    /\ pc[r] = "lock" /\ holder = None
    /\ \/ Paused /\ Give(r, None)
       \/ ~Paused /\ Usable /\ Give(r, cached)
    /\ UNCHANGED <<now, mode, file, cached, until, holder, private, slow, failed>>

\* faulty: the load is outside the lock
UnlockedLoad(r) ==
    /\ pc[r] = "lock" /\ ~Paused /\ ~Usable
    /\ holder' = r
    /\ pc' = [pc EXCEPT ![r] = "load"]
    /\ UNCHANGED <<now, mode, file, cached, until, private, creds, slow, failed, missed>>
\* Neither holds: the request keeps the lock while it loads.
BeginLoad(r) ==
    /\ pc[r] = "lock" /\ holder = None
    /\ ~Paused /\ ~Usable
    /\ holder' = r
    /\ pc' = [pc EXCEPT ![r] = "load"]
    /\ UNCHANGED <<now, mode, file, cached, until, private, creds, slow, failed, missed>>

\* _load_credentials: the file, then the environment of the process, then
\* the endpoint.  The environment was exported when the container started
\* and says nothing of when it expires.
Readable == file \notin {None, Unreadable}
FromEnv == [dies |-> Life, expires_at |-> Never, source |-> "env"]
FromEndpoint == {[dies |-> t, expires_at |-> t, source |-> "endpoint"] :
                    t \in {now + 2, now + Life}}
Loadable == IF Readable THEN {file}
            ELSE IF "env" \in Sources THEN {FromEnv}
            ELSE IF "endpoint" \in Sources THEN FromEndpoint ELSE {}
\* The file is never unreachable; the endpoint may be.
MayFail == ~Readable /\ "env" \notin Sources

Loaded(r) ==
    /\ pc[r] = "load"
    /\ \E c \in Loadable : cached' = c /\ Give(r, c)
    /\ holder' = None
    /\ UNCHANGED <<now, mode, file, until, private, slow, failed>>

LongPause == now + 60 * Pause  \* faulty: a minute taken for a second
NextTry == now + Pause
RaisesNever == FALSE  \* faulty: "required" is ignored
Raises == mode = "required"

\* An exception: in mode "required" it ends the request, else the request
\* goes out unsigned and no load is tried for a while.  The credential in
\* the cache stays.
LoadFails(r) ==
    /\ pc[r] = "load" /\ MayFail
    /\ holder' = None
    /\ failed' = now
    /\ IF Raises
       THEN /\ pc' = [pc EXCEPT ![r] = "idle"]
            /\ UNCHANGED <<until, creds, missed>>
       ELSE /\ until' = NextTry
            /\ Give(r, None)
    /\ UNCHANGED <<now, mode, file, cached, private, slow>>

\* _proxy has sent the request and streamed the response.
Send(r) ==
    /\ pc[r] = "sending"
    /\ pc' = [pc EXCEPT ![r] = "idle"]
    /\ creds' = [creds EXCEPT ![r] = None]
    /\ private' = [private EXCEPT ![r] = FALSE]
    /\ slow' = [slow EXCEPT ![r] = FALSE]
    /\ missed' = [missed EXCEPT ![r] = FALSE]
    /\ UNCHANGED <<now, mode, file, cached, until, holder, failed>>

Next ==
    \/ Tick \/ CopyFile
    \/ \E r \in Request :
          Arrive(r) \/ Answer(r) \/ BeginLoad(r) \/ Loaded(r) \/ LoadFails(r) \/ Send(r)

Spec == Init /\ [][Next]_vars

-----------------------------------------------------------------------------
(* Properties *)

Sending(r) == pc[r] = "sending" /\ private[r]

\* What the endpoint has issued is still accepted when S3 looks at the
\* signature, however long it was cached.
SignedAlive ==
    \A r \in Request :
        Sending(r) /\ creds[r] # None /\ creds[r].source = "endpoint" => ~Dead(creds[r])

\* A request signs with a dead credential beside a file with a live one only
\* if what the cache holds stated no Expiration: whatever states one is
\* given up for what the script has written.
KeptOnlyUndated == \A r \in Request : missed[r] => creds[r] # None /\ creds[r].expires_at = Never

\* No request signs with a dead credential when the refreshed file has a
\* live one: the signer picks up what the script has written.
FileIsPickedUp == \A r \in Request : ~missed[r]

\* In mode "auto" a request goes out unsigned only if loading a credential
\* failed in the last minutes: one failure does not switch signing off.
UnsignedMeansFailed ==
    \A r \in Request : Sending(r) /\ creds[r] = None /\ mode = "auto" =>
        failed # None /\ now <= failed + Pause + 1

\* In mode "required" no request goes to a private bucket unsigned.
RequiredIsSigned ==
    \A r \in Request : Sending(r) /\ mode = "required" => creds[r] # None
=============================================================================
