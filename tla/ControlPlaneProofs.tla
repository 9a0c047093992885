------------------------ MODULE ControlPlaneProofs ------------------------
(* Theorems about the services of the control plane, for every value of    *)
(* their constants.  Each service has an inductive invariant, stated in    *)
(* its module, one lemma per action that can disturb it, and a theorem of  *)
(* the composition: what a step does is a step of the service in focus,    *)
(* and stuttering of the others.                                           *)
EXTENDS MCControlPlane, Selection, SequenceTheorems, FiniteSetTheorems, TLAPS

LEMMA Starts ==
    CPInit => /\ Init /\ Rest!Init /\ Au!Init /\ Km!Init /\ Ops!Init
              /\ Bk!Init /\ Hc!Init /\ Crt!Init /\ Fed!Init /\ Hk!Init /\ Bq!Init
BY DEF CPInit

LEMMA Steps ==
    [CPNext]_cpVars =>
        /\ [Next]_vars /\ [Rest!Next]_Rest!vars /\ [Au!Next]_Au!authVars
        /\ [Km!Next]_Km!kmsVars /\ [Ops!Next]_Ops!operatorVars
        /\ [Bk!Next]_Bk!backupVars /\ [Hc!Next]_Hc!healthVars
        /\ [Crt!Next]_Crt!certVars /\ [Fed!Next]_Fed!federationVars
        /\ [Hk!Next]_Hk!hookVars /\ [Bq!Next]_Bq!vars
BY DEF CPNext, Still, cpVars, restVars, authVars, kmsVars, opsVars, backupVars,
       healthVars, certVars, fedVars, hookVars, queueVars, Rest!vars, Au!authVars, Km!kmsVars,
       Ops!operatorVars, Bk!backupVars, Hc!healthVars, Crt!certVars,
       Fed!federationVars, Hk!hookVars, Bq!vars

-----------------------------------------------------------------------------
LEMMA InitKms == Km!Init => Km!KmsInv
BY DEF Km!Init, Km!KmsInv, Km!OneActiveKey, Km!Resting

\* Whatever number a rotation has read, it leaves its own entry active alone.
LEMMA RotateKeeps ==
    ASSUME Km!KmsInv, NEW c \in Clients, Km!RotatePush(c)
    PROVE  Km!KmsInv'
<1> DEFINE Version == [version : Nat, active : BOOLEAN]
           new == [version |-> kms[c].version, active |-> TRUE]
           old == Km!deprecate(kms[c].version)
<1>1. new \in Version
  BY DEF Km!KmsInv, Km!RotatePush
<1>2. /\ key_versions \in Seq(Version)
      /\ DOMAIN key_versions = 1 .. Len(key_versions)
      /\ Len(key_versions) \in Nat
  BY DEF Km!KmsInv
<1>3. ASSUME NEW i \in 1 .. Len(key_versions)
      PROVE  /\ [key_versions[i] EXCEPT !.active = FALSE] \in Version
             /\ ~[key_versions[i] EXCEPT !.active = FALSE].active
  <2>1. key_versions[i] \in Version
    <3> HIDE DEF Version
    <3> QED BY <1>2
  <2> QED BY <2>1
<1>4. /\ old \in Seq(Version)
      /\ Len(old) = Len(key_versions)
      /\ \A i \in 1 .. Len(old) : ~old[i].active
  <2>1. old \in [1 .. Len(key_versions) -> Version]
    BY <1>2, <1>3 DEF Km!deprecate
  <2> QED BY <1>2, <1>3, <2>1 DEF Km!deprecate
<1>5. key_versions' = Append(old, new)
  BY DEF Km!RotatePush
<1>6. key_versions' \in Seq(Version)
  BY <1>1, <1>4, <1>5
<1>7. Km!OneActiveKey'
  BY <1>1, <1>4, <1>5 DEF Km!OneActiveKey
<1>8. /\ kms' = [d \in Clients |-> kms'[d]]
      /\ \A d \in Clients : kms'[d].op = "rotate" => kms'[d].version \in Nat
  BY DEF Km!KmsInv, Km!RotatePush, Km!Stop, Km!Step
<1> QED BY <1>6, <1>7, <1>8 DEF Km!KmsInv

\* However many rotations of the master key overlap, the list of versions
\* has one active key, the newest entry.
THEOREM OneKeyActive == CPSpec => []OneActiveKey
<1>1. Km!KmsInv /\ [Km!Next]_Km!kmsVars => Km!KmsInv'
  <2> SUFFICES ASSUME Km!KmsInv, [Km!Next]_Km!kmsVars PROVE Km!KmsInv'
    OBVIOUS
  <2>1. CASE UNCHANGED Km!kmsVars
    BY <2>1 DEF Km!KmsInv, Km!OneActiveKey, Km!kmsVars
  <2>2. ASSUME NEW c \in Clients, Km!RotatePush(c) PROVE Km!KmsInv'
    BY <2>2, RotateKeeps
  <2>3. ASSUME NEW c \in Clients, Km!RotateRead(c) PROVE Km!KmsInv'
    BY <2>3 DEF Km!RotateRead, Km!Step, Km!KmsInv, Km!OneActiveKey
  <2>4. ASSUME NEW c \in Clients,
               Km!EncryptBegin(c) \/ Km!EncryptStore(c) \/ Km!Decrypt(c) \/ Km!delete(c)
               \/ Km!ProbeRead(c) \/ Km!ProbeClean(c)
        PROVE  Km!KmsInv'
    <3>1. UNCHANGED key_versions
      BY <2>4 DEF Km!EncryptBegin, Km!EncryptStore, Km!Decrypt, Km!delete, Km!ProbeRead,
         Km!ProbeClean
    <3>2. \E r : r.op # "rotate" /\ Km!Step(c, r)
      BY <2>4 DEF Km!EncryptBegin, Km!EncryptStore, Km!Decrypt, Km!delete, Km!ProbeRead,
         Km!ProbeClean, Km!Stop
    <3> QED BY <3>1, <3>2 DEF Km!Step, Km!KmsInv, Km!OneActiveKey
  <2> QED BY <2>1, <2>2, <2>3, <2>4 DEF Km!Next
<1>2. Km!KmsInv => OneActiveKey
  BY DEF OneActiveKey, Km!KmsInv
<1> QED BY Starts, Steps, InitKms, <1>1, <1>2, PTL DEF CPSpec

-----------------------------------------------------------------------------
LEMMA InitAuth == Au!Init => Au!AuthInv
BY DEF Au!Init, Au!AuthInv, Au!Signed, Au!Waiting

LEMMA FreshIsNew ==
    ASSUME NEW ids, NEW taken, NEW i \in Au!Fresh(ids, taken)
    PROVE  i \in ids /\ i \notin taken
BY DEF Au!Fresh

\* Signing adds tokens of a known user and leaves those that were signed.
LEMMA SignKeeps ==
    ASSUME expiry_secs \in Nat, refresh_expiry_secs \in Nat, clock \in Nat, Au!Signed,
           NEW u \in drawn, Au!Sign(u), drawn' = drawn
    PROVE  /\ Au!Signed'
           /\ DOMAIN issued \subseteq DOMAIN issued'
           /\ \A t \in DOMAIN issued : issued'[t] = issued[t]
<1>1. PICK t \in Au!Fresh(Jtis, DOMAIN issued) : \E r \in Au!Fresh(Jtis, DOMAIN issued \cup {t}) :
        issued' = Au!Put(Au!Put(issued, t, Au!create_access_token(u)), r, Au!create_refresh_token(u))
  BY DEF Au!Sign
<1>2. PICK r \in Au!Fresh(Jtis, DOMAIN issued \cup {t}) :
        issued' = Au!Put(Au!Put(issued, t, Au!create_access_token(u)), r, Au!create_refresh_token(u))
  BY <1>1
<1>3. t \notin DOMAIN issued /\ r \notin DOMAIN issued \cup {t}
  BY FreshIsNew
<1>4. /\ Au!create_access_token(u).exp \in Nat /\ Au!create_access_token(u).sub = u
      /\ Au!create_refresh_token(u).exp \in Nat /\ Au!create_refresh_token(u).sub = u
  BY DEF Au!create_access_token, Au!create_refresh_token
<1>5. /\ DOMAIN issued' = DOMAIN issued \cup {t, r}
      /\ issued'[t] = Au!create_access_token(u) /\ issued'[r] = Au!create_refresh_token(u)
      /\ \A x \in DOMAIN issued : issued'[x] = issued[x]
  BY <1>2, <1>3 DEF Au!Put
<1> QED BY <1>4, <1>5 DEF Au!Signed

\* A step that signs tokens and leaves what shuts a token as it is.
LEMMA SigningKeeps ==
    ASSUME expiry_secs \in Nat, refresh_expiry_secs \in Nat, Au!AuthInv,
           NEW u \in drawn, Au!Sign(u), UNCHANGED <<users, blocklist, drawn, revoked, clock>>,
           login' = login \/ \E c \in Clients : Au!Done(c)
    PROVE  Au!AuthInv'
<1>1. /\ Au!Signed'
      /\ DOMAIN issued \subseteq DOMAIN issued'
      /\ \A t \in DOMAIN issued : issued'[t] = issued[t]
  BY SignKeeps DEF Au!AuthInv
<1>2. \A t \in revoked : Au!Shut(t)'
  BY <1>1 DEF Au!AuthInv, Au!Shut
<1>3. /\ login' = [c \in Clients |-> login'[c]]
      /\ \A c \in Clients : login'[c].op \in {"stored", "refresh"} => login'[c].user \in drawn
  BY DEF Au!AuthInv, Au!Done, Au!Waiting
<1> QED BY <1>1, <1>2, <1>3 DEF Au!AuthInv

\* A step of a method that signs nothing.
LEMMA MethodKeeps ==
    ASSUME Au!AuthInv, NEW c \in Clients,
           Au!RegisterCheck(c) \/ Au!RegisterUser(c) \/ Au!Refresh(c) \/ Au!Logout(c)
    PROVE  Au!AuthInv'
<1>1. CASE Au!RegisterCheck(c)
  BY <1>1 DEF Au!AuthInv, Au!RegisterCheck, Au!Signed, Au!Shut
<1>2. CASE Au!RegisterUser(c)
  <2>1. PICK u \in Au!Fresh(UserIds, drawn) :
          /\ users' = Au!Put(users, u, login[c].name)
          /\ drawn' = drawn \cup {u}
          /\ login' = [login EXCEPT ![c] = [op |-> "stored", user |-> u]]
    BY <1>2 DEF Au!RegisterUser
  <2>2. u \notin drawn
    BY FreshIsNew
  <2>3. DOMAIN users' = DOMAIN users \cup {u}
    BY <2>1 DEF Au!Put
  <2>4. UNCHANGED <<blocklist, issued, revoked, clock>>
    BY <1>2 DEF Au!RegisterUser
  <2>5. \A t \in revoked : Au!Shut(t)'
    BY <2>2, <2>3, <2>4 DEF Au!AuthInv, Au!Signed, Au!Shut
  <2>6. /\ login' = [d \in Clients |-> login'[d]]
        /\ \A d \in Clients : login'[d].op \in {"stored", "refresh"} => login'[d].user \in drawn'
    BY <2>1 DEF Au!AuthInv
  <2> QED BY <2>1, <2>3, <2>4, <2>5, <2>6 DEF Au!AuthInv, Au!Signed
<1>3. CASE Au!Refresh(c)
  BY <1>3 DEF Au!AuthInv, Au!Refresh, Au!refresh_token, Au!Signed, Au!Shut
<1>4. CASE Au!Logout(c)
  BY <1>4 DEF Au!AuthInv, Au!Logout, Au!Signed, Au!Shut
<1> QED BY <1>1, <1>2, <1>3, <1>4

\* What the cleanup takes off the blocklist is in its last second or past it.
LEMMA CleanupKeeps == ASSUME Au!AuthInv, Au!Cleanup PROVE Au!AuthInv'
<1>1. \A t \in revoked : t \in blocklist /\ t \notin blocklist' => clock >= issued[t].exp
  BY DEF Au!AuthInv, Au!Signed, Au!Cleanup
<1>2. \A t \in revoked : Au!Shut(t)'
  BY <1>1 DEF Au!AuthInv, Au!Shut, Au!Cleanup
<1> QED BY <1>2 DEF Au!AuthInv, Au!Signed, Au!Cleanup

LEMMA TickKeeps == ASSUME Au!AuthInv, Au!Tick PROVE Au!AuthInv'
BY DEF Au!AuthInv, Au!Signed, Au!Shut, Au!Tick

LEMMA RestartKeeps == ASSUME Au!AuthInv, Au!AuthRestart PROVE Au!AuthInv'
BY DEF Au!AuthInv, Au!Signed, Au!Shut, Au!AuthRestart, Au!Waiting

\* Whatever the lifetimes of tokens are, one that was logged out is accepted
\* neither by a protected route nor for a refresh, but for its last second.
THEOREM LoggedOutRefused == CPSpec => []RevokedRefused
<1>1. Au!AuthInv /\ [Au!Next]_Au!authVars => Au!AuthInv'
  <2> SUFFICES ASSUME Au!AuthInv, [Au!Next]_Au!authVars PROVE Au!AuthInv'
    OBVIOUS
  <2>1. CASE UNCHANGED Au!authVars
    BY <2>1 DEF Au!authVars, Au!AuthInv, Au!Signed, Au!Shut
  <2>2. CASE Au!Cleanup \/ Au!Tick \/ Au!AuthRestart
    BY <2>2, CleanupKeeps, TickKeeps, RestartKeeps
  <2>3. ASSUME NEW c \in Clients, Au!RegisterName(c) PROVE Au!AuthInv'
    BY <2>3, SigningKeeps, ControlPlaneAssumption DEF Au!RegisterName, Au!AuthInv
  <2>4. ASSUME NEW c \in Clients, Au!Login(c) PROVE Au!AuthInv'
    BY <2>4, SigningKeeps, ControlPlaneAssumption DEF Au!Login, Au!AuthInv
  <2>5. ASSUME NEW c \in Clients, Au!RefreshSign(c) PROVE Au!AuthInv'
    BY <2>5, SigningKeeps, ControlPlaneAssumption DEF Au!RefreshSign, Au!AuthInv
  <2> QED BY <2>1, <2>2, <2>3, <2>4, <2>5, MethodKeeps DEF Au!Next
<1>2. Au!AuthInv => RevokedRefused
  BY DEF RevokedRefused, Au!AuthInv, Au!Signed, Au!Shut, Au!RevokedRefused,
         Au!validate_access_token, Au!refresh_token,
         Au!validate_token
<1> QED BY Starts, Steps, InitAuth, <1>1, <1>2, PTL DEF CPSpec

-----------------------------------------------------------------------------
LEMMA InitHooks == Hk!Init => Hk!HooksInv
BY DEF Hk!Init, Hk!HooksInv, Hk!NoDelivery, Hk!AskedOnce, Hk!Distinct, Hk!Informed

LEMMA DoingIsDelivering ==
    ASSUME NEW c \in Clients, delivery[c].do \in {"process", "submit"}
    PROVE  delivery[c] # Hk!NoDelivery
BY DEF Hk!NoDelivery

\* A registration that is added or replaced is in force for whoever is on
\* the way, and one that is removed stays so.
LEMMA RegistrationsKeep ==
    ASSUME Hk!HooksInv, Hk!Register \/ Hk!Unregister
    PROVE  Hk!HooksInv'
<1>1. CASE Hk!Register
  <2>1. PICK r \in Hk!Registration :
          /\ repositories' = [k \in DOMAIN repositories \cup {r.key} |->
                                IF k = r.key THEN r ELSE repositories[k]]
          /\ in_force' = [c \in Clients |->
                IF delivery[c] = Hk!NoDelivery THEN {} ELSE in_force[c] \cup Hk!Deploying({r})]
          /\ UNCHANGED <<events, delivery, asked>>
    BY <1>1 DEF Hk!Register
  <2>2. Hk!Values(repositories') \subseteq Hk!Values(repositories) \cup {r}
    BY <2>1 DEF Hk!Values
  <2>3. Hk!Deploying(Hk!Values(repositories')) \subseteq Hk!Deploying(Hk!Values(repositories)) \cup Hk!Deploying({r})
    BY <2>2 DEF Hk!Deploying
  <2>4. ASSUME NEW c \in Clients, delivery[c].do \in {"process", "submit"}
        PROVE  in_force'[c] = in_force[c] \cup Hk!Deploying({r})
    BY <2>1, <2>4, DoingIsDelivering
  <2>5. \A c \in Clients : Hk!Informed(c)'
    BY <2>1, <2>3, <2>4 DEF Hk!HooksInv, Hk!Informed
  <2> QED BY <2>1, <2>5 DEF Hk!HooksInv, Hk!AskedOnce, Hk!Distinct
<1>2. CASE Hk!Unregister
  <2>1. Hk!Values(repositories') \subseteq Hk!Values(repositories)
    BY <1>2 DEF Hk!Unregister, Hk!Values
  <2>2. Hk!Deploying(Hk!Values(repositories')) \subseteq Hk!Deploying(Hk!Values(repositories))
    BY <2>1 DEF Hk!Deploying
  <2>3. \A c \in Clients : Hk!Informed(c)'
    BY <1>2, <2>2 DEF Hk!Unregister, Hk!HooksInv, Hk!Informed
  <2> QED BY <1>2, <2>3 DEF Hk!Unregister, Hk!HooksInv, Hk!AskedOnce, Hk!Distinct
<1> QED BY <1>1, <1>2

LEMMA HandleKeeps ==
    ASSUME Hk!HooksInv, NEW c \in Clients, Hk!Handle(c)
    PROVE  Hk!HooksInv'
<1>1. PICK p \in Hk!Providers, push \in BOOLEAN :
        delivery' = [delivery EXCEPT ![c] =
            [do |-> "process", id |-> events + 1, push |-> push, event |-> Hk!parse(p, push)]]
  BY DEF Hk!Handle
<1>2. /\ events' = events + 1 /\ events \in Nat
      /\ in_force' = [in_force EXCEPT ![c] = Hk!Deploying(Hk!Values(repositories))]
      /\ UNCHANGED <<repositories, asked>>
  BY DEF Hk!Handle, Hk!HooksInv
<1>3. \A d \in Clients : d # c => delivery'[d] = delivery[d] /\ in_force'[d] = in_force[d]
  BY <1>1, <1>2 DEF Hk!HooksInv
<1>4. /\ delivery'[c].do = "process" /\ delivery'[c].id = events + 1
      /\ in_force'[c] = Hk!Deploying(Hk!Values(repositories))
  BY <1>1, <1>2 DEF Hk!HooksInv
<1>5. Hk!AskedOnce'
  BY <1>2 DEF Hk!HooksInv, Hk!AskedOnce
<1>6. \A d \in Clients : Hk!Informed(d)'
  BY <1>2, <1>3, <1>4 DEF Hk!HooksInv, Hk!Informed
<1>7. ASSUME NEW d \in Clients PROVE Hk!Distinct(d)'
  <2>1. CASE d = c
    <3>1. \A e \in Clients \ {c} :
            delivery'[e] # Hk!NoDelivery => delivery'[e].id \in 1..events
      BY <1>3 DEF Hk!HooksInv, Hk!Distinct
    <3>2. \A b \in asked : b[1] \in 1..events
      BY DEF Hk!HooksInv, Hk!AskedOnce
    <3> QED BY <1>2, <1>4, <2>1, <3>1, <3>2 DEF Hk!Distinct
  <2>2. CASE d # c
    <3>1. Hk!Distinct(d) /\ delivery'[d] = delivery[d]
      BY <1>3, <2>2 DEF Hk!HooksInv
    <3>2. delivery[d] # Hk!NoDelivery => delivery[d].id \in 1..events /\ delivery[d].id # events + 1
      BY <1>2, <3>1 DEF Hk!Distinct
    <3> QED BY <1>2, <1>3, <1>4, <3>1, <3>2 DEF Hk!Distinct
  <2> QED BY <2>1, <2>2
<1>8. /\ delivery' = [d \in Clients |-> delivery'[d]]
      /\ in_force' = [d \in Clients |-> in_force'[d]]
  BY <1>1, <1>2 DEF Hk!HooksInv
<1> QED BY <1>2, <1>5, <1>6, <1>7, <1>8 DEF Hk!HooksInv

\* A step of a delivery that ends it, or keeps its id.
LEMMA DeliveryKeeps ==
    ASSUME Hk!HooksInv, NEW c \in Clients, NEW to, delivery[c] # Hk!NoDelivery,
           events' = events, asked' = asked,
           delivery' = [delivery EXCEPT ![c] = to],
           to = Hk!NoDelivery \/ (to.do = "submit" /\ to.id = delivery[c].id)
    PROVE  Hk!AskedOnce' /\ \A d \in Clients : Hk!Distinct(d)'
<1>1. \A d \in Clients : d # c => delivery'[d] = delivery[d]
  BY DEF Hk!HooksInv
<1>2. delivery'[c] = to
  BY DEF Hk!HooksInv
<1> QED BY <1>1, <1>2 DEF Hk!HooksInv, Hk!AskedOnce, Hk!Distinct

LEMMA ProcessKeeps ==
    ASSUME Hk!HooksInv, NEW c \in Clients, Hk!Process(c)
    PROVE  Hk!HooksInv'
<1>1. delivery[c] # Hk!NoDelivery /\ delivery[c].do = "process"
  BY DoingIsDelivering DEF Hk!Process
<1>2. UNCHANGED <<repositories, events, asked>>
  BY DEF Hk!Process
<1>3. CASE Hk!Ends(c)
  <2>1. Hk!AskedOnce' /\ \A d \in Clients : Hk!Distinct(d)'
    BY <1>1, <1>2, <1>3, DeliveryKeeps DEF Hk!Ends
  <2>2. \A d \in Clients : Hk!Informed(d)'
    BY <1>2, <1>3 DEF Hk!HooksInv, Hk!Informed, Hk!Ends, Hk!NoDelivery
  <2> QED BY <1>2, <1>3, <2>1, <2>2 DEF Hk!HooksInv, Hk!Ends
<1>4. CASE \E r \in Hk!Deploying(Hk!Values(repositories)) :
             /\ delivery' = [delivery EXCEPT ![c] =
                  [do |-> "submit", id |-> delivery[c].id, reg |-> r]]
             /\ UNCHANGED in_force
  <2>1. PICK r \in Hk!Deploying(Hk!Values(repositories)) :
             /\ delivery' = [delivery EXCEPT ![c] =
                  [do |-> "submit", id |-> delivery[c].id, reg |-> r]]
             /\ UNCHANGED in_force
    BY <1>4
  <2>2. Hk!AskedOnce' /\ \A d \in Clients : Hk!Distinct(d)'
    BY <1>1, <1>2, <2>1, DeliveryKeeps
  <2>3. \A d \in Clients : Hk!Informed(d)'
    BY <1>1, <1>2, <2>1 DEF Hk!HooksInv, Hk!Informed
  <2> QED BY <1>2, <2>1, <2>2, <2>3 DEF Hk!HooksInv
<1> QED BY <1>3, <1>4 DEF Hk!Process, Hk!repo_matches_event, Hk!wanted, Hk!Deploying

LEMMA SubmitKeeps ==
    ASSUME Hk!HooksInv, NEW c \in Clients, Hk!Submit(c)
    PROVE  Hk!HooksInv'
<1>1. delivery[c] # Hk!NoDelivery
  BY DoingIsDelivering DEF Hk!Submit
<1>2. /\ \A d \in Clients : d # c => delivery'[d] = delivery[d] /\ in_force'[d] = in_force[d]
      /\ delivery'[c] = Hk!NoDelivery
      /\ UNCHANGED <<repositories, events>>
  BY DEF Hk!HooksInv, Hk!Submit, Hk!Ends
<1>3. PICK app : asked' = asked \cup {<<delivery[c].id, app>>}
  BY DEF Hk!Submit
<1>4. Hk!AskedOnce'
  BY <1>1, <1>2, <1>3 DEF Hk!HooksInv, Hk!AskedOnce, Hk!Distinct
<1>5. \A d \in Clients : Hk!Distinct(d)'
  BY <1>1, <1>2, <1>3 DEF Hk!HooksInv, Hk!Distinct
<1>6. \A d \in Clients : Hk!Informed(d)'
  BY <1>2 DEF Hk!HooksInv, Hk!Informed, Hk!NoDelivery
<1> QED BY <1>2, <1>4, <1>5, <1>6 DEF Hk!HooksInv, Hk!Submit, Hk!Ends

\* Whatever the registrations and the number of deliveries at once, a
\* delivery builds at most once, and for a registration it found in force.
THEOREM BuildsEarned == CPSpec => []BuildsRegistered
<1>1. Hk!HooksInv /\ [Hk!Next]_Hk!hookVars => Hk!HooksInv'
  <2> SUFFICES ASSUME Hk!HooksInv, [Hk!Next]_Hk!hookVars PROVE Hk!HooksInv'
    OBVIOUS
  <2>1. CASE UNCHANGED Hk!hookVars
    BY <2>1 DEF Hk!HooksInv, Hk!hookVars, Hk!AskedOnce, Hk!Distinct, Hk!Informed
  <2>2. CASE Hk!Next
    BY <2>2, RegistrationsKeep, HandleKeeps, ProcessKeeps, SubmitKeeps DEF Hk!Next
  <2> QED BY <2>1, <2>2
<1>2. Hk!HooksInv => BuildsRegistered
  BY DEF BuildsRegistered, Hk!HooksInv, Hk!AskedOnce, Hk!Informed, Hk!BuildsRegistered
<1> QED BY Starts, Steps, InitHooks, <1>1, <1>2, PTL DEF CPSpec

-----------------------------------------------------------------------------
LEMMA InitCerts == Crt!Init => Crt!CertInv
BY DEF Crt!Init, Crt!CertInv, Crt!TaskOK, Crt!QueueOK, Crt!Resting

\* A method that begins, or a sweep that goes on, copies no revoked
\* certificate in order to renew it.
LEMMA BeginKeeps ==
    ASSUME Crt!CertInv, NEW c \in CertClients, NEW to, Crt!TaskOK(to),
           cert_task' = [cert_task EXCEPT ![c] = to],
           to.op = "sweep" => to.left \subseteq DOMAIN certs,
           cert_task[c] = Crt!Resting \/ cert_task[c].todo = <<>>,
           \/ to = Crt!Resting \/ to.todo = <<>> \/ to.todo = <<"revoked">>
           \/ to.id \notin ended \ raced,
           UNCHANGED <<certs, writers, ended, raced>>
    PROVE  Crt!CertInv'
<1>1. /\ cert_task'[c] = to
      /\ \A d \in CertClients : d # c => cert_task'[d] = cert_task[d]
  BY DEF Crt!CertInv
<1>2. \A k \in 1..Len(writers) : writers[k] # c /\ writers[k] \in CertClients
  BY DEF Crt!CertInv, Crt!QueueOK
<1>3. Crt!QueueOK'
  BY <1>1, <1>2 DEF Crt!CertInv, Crt!QueueOK
<1>4. ASSUME NEW i \in ended \ raced PROVE Crt!Final(i)'
  BY <1>1, <1>4 DEF Crt!CertInv, Crt!Final, Crt!Copies, Crt!Resting
<1> QED BY <1>1, <1>3, <1>4 DEF Crt!CertInv

LEMMA QueueKeeps ==
    ASSUME Crt!CertInv, NEW c \in CertClients, Crt!Queue(c)
    PROVE  Crt!CertInv'
<1>1. Crt!QueueOK'
  BY DEF Crt!CertInv, Crt!QueueOK, Crt!Queue, Crt!Waits
<1> QED BY <1>1 DEF Crt!CertInv, Crt!Queue, Crt!Final, Crt!Copies

LEMMA IssuingTail ==
    ASSUME NEW todo \in Crt!Issuing, todo # <<>>
    PROVE  /\ Tail(todo) \in Crt!Issuing
           /\ Head(todo) \in {"pending", "validating", "renewing", "issued"}
<1>1. CASE todo = <<"issued">>
  BY <1>1 DEF Crt!Issuing
<1>2. CASE todo = <<"validating", "issued">>
  BY <1>2 DEF Crt!Issuing
<1>3. CASE todo = <<"renewing", "issued">>
  BY <1>3 DEF Crt!Issuing
<1>4. CASE todo = <<"pending", "validating", "issued">>
  BY <1>4 DEF Crt!Issuing
<1> QED BY <1>1, <1>2, <1>3, <1>4 DEF Crt!Issuing

\* Storing a status: the only one that waits for its own certificate is the
\* task itself when it is a revocation, unless the certificate is raced.
LEMMA UpdateKeeps ==
    ASSUME Crt!CertInv, NEW c \in CertClients, Crt!update_certificate(c)
    PROVE  Crt!CertInv'
<1> DEFINE t == cert_task[c]
           s == Head(t.todo)
           cert == [t.cert EXCEPT !.status = s, !.due = IF s = "issued" THEN FALSE ELSE @]
           next == IF Tail(t.todo) = <<>> /\ t.op # "sweep" THEN Crt!Resting
                   ELSE [t EXCEPT !.cert = cert, !.todo = Tail(@)]
<1>1. writers \in Seq(CertClients) /\ writers # <<>> /\ Head(writers) = c
  BY DEF Crt!update_certificate, Crt!CertInv, Crt!QueueOK
<1>2. writers[1] = c /\ 1 \in 1..Len(writers)
  BY <1>1
<1>3. t # Crt!Resting /\ t.todo # <<>> /\ Crt!TaskOK(t)
  BY <1>2 DEF Crt!CertInv, Crt!QueueOK
<1>4. \/ /\ t.op = "revoke" /\ t.todo = <<"revoked">> /\ s = "revoked"
         /\ Tail(t.todo) = <<>>
      \/ /\ t.op \in {"request", "renew", "sweep"} /\ t.todo \in Crt!Issuing
         /\ s \in {"pending", "validating", "renewing", "issued"}
         /\ Tail(t.todo) \in Crt!Issuing
  <2>1. \/ t.op = "revoke" /\ t.todo = <<"revoked">>
        \/ t.op \in {"request", "renew", "sweep"} /\ t.todo \in Crt!Issuing
    BY <1>3 DEF Crt!TaskOK
  <2>2. Head(<<"revoked">>) = "revoked" /\ Tail(<<"revoked">>) = <<>>
    OBVIOUS
  <2> QED BY <1>3, <2>1, <2>2, IssuingTail
<1>5. t.cert \in Crt!Certificate
  BY <1>3 DEF Crt!TaskOK, Crt!Resting
<1>6. /\ certs' = [i \in DOMAIN certs \cup {t.id} |-> IF i = t.id THEN cert ELSE certs[i]]
      /\ cert_task' = [cert_task EXCEPT ![c] = next]
      /\ ended' = IF s = "revoked" THEN ended \cup {t.id} ELSE ended
      /\ raced' = IF s = "revoked" /\ Crt!Copies(t.id) # {c} THEN raced \cup {t.id} ELSE raced
      /\ writers' = Tail(writers)
  BY DEF Crt!update_certificate
<1>7. cert \in Crt!Certificate /\ cert.status = s
  BY <1>4, <1>5 DEF Crt!Certificate, Crt!CertStatus
<1>8. /\ cert_task' = [d \in CertClients |-> cert_task'[d]] /\ cert_task'[c] = next
      /\ \A d \in CertClients : d # c => cert_task'[d] = cert_task[d]
  BY <1>6 DEF Crt!CertInv
<1>9. /\ next = Crt!Resting \/ (next.op = t.op /\ next.todo = Tail(t.todo) /\ next.id = t.id
                             /\ next.cert = cert)
      /\ t.op = "revoke" => next = Crt!Resting
      /\ next # Crt!Resting => next.left = t.left /\ t.id \in CertIds
      /\ next # Crt!Resting => next \in [op : {t.op}, id : {t.id}, left : {t.left}, cert : {cert},
                                   todo : {Tail(t.todo)}]
  BY <1>3, <1>4 DEF Crt!TaskOK
<1>10. Crt!TaskOK(next)
  BY <1>3, <1>4, <1>7, <1>9 DEF Crt!TaskOK
<1>11. Crt!QueueOK'
  <2>1. /\ Tail(writers) \in Seq(CertClients) /\ Len(Tail(writers)) = Len(writers) - 1
        /\ \A k \in 1..Len(Tail(writers)) : Tail(writers)[k] = writers[k + 1]
    BY <1>1, HeadTailProperties
  <2>2. \A k \in 1..Len(Tail(writers)) : k + 1 \in 1..Len(writers) /\ k + 1 # 1
    BY <1>1, <2>1
  <2>3. \A k \in 1..Len(Tail(writers)) : writers[k + 1] # c /\ writers[k + 1] \in CertClients
    BY <1>1, <1>2, <2>2 DEF Crt!CertInv, Crt!QueueOK
  <2>4. \A k \in 1..Len(Tail(writers)) :
           /\ Tail(writers)[k] = writers[k + 1] /\ k + 1 \in 1..Len(writers)
           /\ cert_task'[writers[k + 1]] = cert_task[writers[k + 1]]
    BY <1>8, <2>1, <2>2, <2>3
  <2>5. \A k, l \in 1..Len(Tail(writers)) :
           Tail(writers)[k] = Tail(writers)[l] => k + 1 = l + 1
    <3> SUFFICES ASSUME NEW k \in 1..Len(Tail(writers)), NEW l \in 1..Len(Tail(writers)),
                        writers[k + 1] = writers[l + 1]
                 PROVE  k + 1 = l + 1
      BY <2>4
    <3>1. k + 1 \in 1..Len(writers) /\ l + 1 \in 1..Len(writers)
      BY <2>4
    <3> QED BY <3>1 DEF Crt!CertInv, Crt!QueueOK
  <2>6. \A k, l \in 1..Len(Tail(writers)) : Tail(writers)[k] = Tail(writers)[l] => k = l
    BY <1>1, <2>1, <2>5
  <2>7. \A k \in 1..Len(Tail(writers)) : /\ cert_task'[Tail(writers)[k]] # Crt!Resting
                                         /\ cert_task'[Tail(writers)[k]].todo # <<>>
    <3> SUFFICES ASSUME NEW k \in 1..Len(Tail(writers))
                 PROVE  /\ cert_task[writers[k + 1]] # Crt!Resting
                        /\ cert_task[writers[k + 1]].todo # <<>>
      BY <2>4
    <3>1. k + 1 \in 1..Len(writers)
      BY <2>4
    <3> QED BY <3>1 DEF Crt!CertInv, Crt!QueueOK
  <2> QED BY <1>6, <2>1, <2>6, <2>7 DEF Crt!QueueOK
<1>12. ASSUME NEW i \in ended' \ raced' PROVE Crt!Final(i)'
  <2>1. CASE i = t.id /\ s = "revoked"
    <3>1. Crt!Copies(i) = {c} /\ next = Crt!Resting
      BY <1>4, <1>6, <1>9, <1>12, <2>1
    <3>2. Crt!Copies(i)' = {}
      BY <1>8, <2>1, <3>1 DEF Crt!Copies, Crt!Resting
    <3> QED BY <1>6, <1>7, <2>1, <3>2 DEF Crt!Final
  <2>2. CASE i = t.id /\ s # "revoked"
    <3>1. i \in ended \ raced /\ c \in Crt!Copies(i)
      BY <1>3, <1>4, <1>6, <1>12, <2>2 DEF Crt!Copies
    <3>2. t.todo = <<"revoked">>
      BY <3>1 DEF Crt!CertInv, Crt!Final
    <3> QED BY <2>2, <3>2
  <2>3. CASE i # t.id
    <3>1. i \in ended \ raced
      BY <1>6, <1>12, <2>3
    <3>2. Crt!Copies(i)' \subseteq Crt!Copies(i) /\ c \notin Crt!Copies(i)'
      <4>1. next.op = "none" \/ next.id # i
        BY <1>9, <2>3 DEF Crt!Resting
      <4>2. c \notin Crt!Copies(i)'
        BY <1>8, <4>1 DEF Crt!Copies
      <4> QED BY <1>8, <4>2 DEF Crt!Copies
    <3>3. i \in DOMAIN certs' /\ certs'[i] = certs[i]
      BY <1>6, <2>3, <3>1 DEF Crt!CertInv, Crt!Final
    <3> QED BY <1>8, <3>1, <3>2, <3>3 DEF Crt!CertInv, Crt!Final, Crt!Copies
  <2> QED BY <2>1, <2>2, <2>3
<1>13. \A i \in DOMAIN certs' : certs'[i] \in Crt!Certificate
  BY <1>6, <1>7 DEF Crt!CertInv
<1>14. DOMAIN certs \subseteq DOMAIN certs' /\ DOMAIN certs' \subseteq CertIds
  BY <1>3, <1>6 DEF Crt!CertInv, Crt!TaskOK
<1>15. \A d \in CertClients : cert_task'[d].op = "sweep" => cert_task'[d].left \subseteq DOMAIN certs'
  <2>1. t.op = "sweep" => t.left \subseteq DOMAIN certs
    BY DEF Crt!CertInv
  <2>2. next.op = "sweep" => next.left \subseteq DOMAIN certs
    BY <1>9, <2>1 DEF Crt!Resting
  <2> QED BY <1>8, <1>14, <2>2 DEF Crt!CertInv
<1> QED BY <1>8, <1>10, <1>11, <1>12, <1>13, <1>14, <1>15 DEF Crt!CertInv

LEMMA DueKeeps == Crt!CertInv /\ Crt!ComesDue => Crt!CertInv'
<1> SUFFICES ASSUME Crt!CertInv, NEW i \in DOMAIN certs, certs[i].status = "issued",
                    certs' = [certs EXCEPT ![i].due = TRUE],
                    UNCHANGED <<cert_task, guard, writers, ended, raced>>
             PROVE  Crt!CertInv'
  BY DEF Crt!ComesDue
<1>1. /\ DOMAIN certs' = DOMAIN certs
      /\ \A j \in DOMAIN certs : certs'[j] \in Crt!Certificate /\ certs'[j].status = certs[j].status
  BY DEF Crt!CertInv, Crt!Certificate
<1>2. Crt!QueueOK' /\ \A j \in ended \ raced : Crt!Final(j)'
  BY <1>1 DEF Crt!CertInv, Crt!QueueOK, Crt!Final, Crt!Copies
<1> QED BY <1>1, <1>2 DEF Crt!CertInv

LEMMA NextKeeps == Crt!CertInv /\ [Crt!Next]_Crt!certVars => Crt!CertInv'
<1> SUFFICES ASSUME Crt!CertInv, [Crt!Next]_Crt!certVars PROVE Crt!CertInv'
  OBVIOUS
<1>1. ASSUME NEW c \in CertClients, Crt!Request(c) PROVE Crt!CertInv'
  <2>1. PICK i \in CertIds \ DOMAIN certs, auto \in BOOLEAN :
           cert_task' = [cert_task EXCEPT ![c] =
              [op |-> "request", id |-> i, left |-> {},
               cert |-> [status |-> "pending", due |-> TRUE, auto |-> auto],
               todo |-> <<"pending", "validating", "issued">>]]
    BY <1>1 DEF Crt!Request
  <2>2. i \notin ended \ raced
    BY <2>1 DEF Crt!CertInv, Crt!Final
  <2> QED BY <1>1, <2>1, <2>2, BeginKeeps DEF Crt!Request, Crt!TaskOK, Crt!Issuing,
     Crt!Certificate, Crt!CertStatus
<1>2. ASSUME NEW c \in CertClients, Crt!Renew(c) PROVE Crt!CertInv'
  <2>1. PICK i \in DOMAIN certs :
           /\ certs[i].status = "issued"
           /\ cert_task' = [cert_task EXCEPT ![c] =
                 [op |-> "renew", id |-> i, left |-> {}, cert |-> certs[i],
                  todo |-> <<"renewing", "issued">>]]
    BY <1>2 DEF Crt!Renew, Crt!renewable
  <2>2. i \notin ended \ raced /\ certs[i] \in Crt!Certificate /\ i \in CertIds
    BY <2>1 DEF Crt!CertInv, Crt!Final
  <2> QED BY <1>2, <2>1, <2>2, BeginKeeps DEF Crt!Renew, Crt!TaskOK, Crt!Issuing
<1>3. ASSUME NEW c \in CertClients, Crt!Revoke(c) PROVE Crt!CertInv'
  <2>1. PICK i \in DOMAIN certs :
           cert_task' = [cert_task EXCEPT ![c] =
              [op |-> "revoke", id |-> i, left |-> {}, cert |-> certs[i],
               todo |-> <<"revoked">>]]
    BY <1>3 DEF Crt!Revoke
  <2>2. certs[i] \in Crt!Certificate /\ i \in CertIds
    BY DEF Crt!CertInv
  <2> QED BY <1>3, <2>1, <2>2, BeginKeeps DEF Crt!Revoke, Crt!TaskOK
<1>4. ASSUME NEW c \in CertClients, Crt!Sweep(c) PROVE Crt!CertInv'
  <2>1. PICK i \in DOMAIN certs :
           cert_task' = [cert_task EXCEPT ![c] =
              [op |-> "sweep", id |-> i, left |-> DOMAIN certs, cert |-> certs[i],
               todo |-> <<>>]]
    BY <1>4 DEF Crt!Sweep
  <2>2. certs[i] \in Crt!Certificate /\ i \in CertIds
    BY DEF Crt!CertInv
  <2>3. DOMAIN certs \subseteq CertIds
    BY DEF Crt!CertInv
  <2> DEFINE to == [op |-> "sweep", id |-> i, left |-> DOMAIN certs, cert |-> certs[i],
                    todo |-> <<>>]
  <2>4. Crt!TaskOK(to)
    BY <2>2, <2>3 DEF Crt!TaskOK, Crt!Issuing
  <2> QED BY <1>4, <2>1, <2>4, BeginKeeps DEF Crt!Sweep
<1>5. ASSUME NEW c \in CertClients, Crt!SweepSkip(c) \/ Crt!SweepRenew(c) \/ Crt!SweepEnd(c)
      PROVE  Crt!CertInv'
  <2>1. Crt!TaskOK(cert_task[c]) /\ cert_task[c].todo = <<>> /\ cert_task[c].op = "sweep"
    BY <1>5 DEF Crt!SweepSkip, Crt!SweepRenew, Crt!SweepEnd, Crt!Sweeping, Crt!CertInv
  <2>2. CASE Crt!SweepSkip(c)
    <3>1. PICK i \in cert_task[c].left :
             cert_task' = [cert_task EXCEPT ![c] = [cert_task[c] EXCEPT !.left = @ \ {i}]]
      BY <2>2 DEF Crt!SweepSkip, Crt!CertInv
    <3> DEFINE to == [cert_task[c] EXCEPT !.left = @ \ {i}]
    <3>2. Crt!TaskOK(to) /\ to.todo = <<>> /\ to.left \subseteq DOMAIN certs
      BY <2>1 DEF Crt!TaskOK, Crt!Resting, Crt!CertInv
    <3> QED BY <2>1, <2>2, <3>1, <3>2, BeginKeeps DEF Crt!SweepSkip
  <2>3. CASE Crt!SweepRenew(c)
    <3>1. PICK i \in cert_task[c].left :
             /\ Crt!renewable(certs[i])
             /\ cert_task' = [cert_task EXCEPT ![c] =
                   [op |-> "sweep", id |-> i, left |-> cert_task[c].left \ {i},
                    cert |-> certs[i], todo |-> <<"renewing", "issued">>]]
      BY <2>3 DEF Crt!SweepRenew
    <3> DEFINE t  == cert_task[c]
               to == [op |-> "sweep", id |-> i, left |-> t.left \ {i}, cert |-> certs[i],
                      todo |-> <<"renewing", "issued">>]
    <3>2. t.left \subseteq DOMAIN certs
      BY <2>1 DEF Crt!CertInv
    <3>3. i \in DOMAIN certs /\ DOMAIN certs \subseteq CertIds /\ certs[i] \in Crt!Certificate
          /\ i \notin ended \ raced
      BY <3>1, <3>2 DEF Crt!CertInv, Crt!Final, Crt!renewable
    <3>4. Crt!TaskOK(to) /\ to.left \subseteq DOMAIN certs
      BY <3>2, <3>3 DEF Crt!TaskOK, Crt!Issuing
    <3> QED BY <2>1, <2>3, <3>1, <3>3, <3>4, BeginKeeps DEF Crt!SweepRenew
  <2>4. CASE Crt!SweepEnd(c)
    BY <2>1, <2>4, BeginKeeps DEF Crt!SweepEnd, Crt!TaskOK, Crt!Resting
  <2> QED BY <1>5, <2>2, <2>3, <2>4
<1>6. CASE Crt!ComesDue
  BY <1>6, DueKeeps
<1>7. CASE UNCHANGED Crt!certVars
  BY <1>7 DEF Crt!certVars, Crt!CertInv, Crt!QueueOK, Crt!Final, Crt!Copies
<1> QED BY <1>1, <1>2, <1>3, <1>4, <1>5, <1>6, <1>7, QueueKeeps, UpdateKeeps DEF Crt!Next,
   Crt!Step

\* A revocation is final for every certificate that no request, renewal or
\* sweep had read before the revocation was stored (revoke_certificate and
\* renew_certificate).
THEOREM RevocationStays == CPSpec => []RevokedStays
<1>1. Crt!Init => Crt!CertInv
  BY InitCerts
<1>2. Crt!CertInv /\ [Crt!Next]_Crt!certVars => Crt!CertInv'
  BY NextKeeps
<1>3. Crt!CertInv => RevokedStays
  BY DEF RevokedStays, Crt!CertInv, Crt!Final, Crt!RevokedStays
<1> QED BY Starts, Steps, <1>1, <1>2, <1>3, PTL DEF CPSpec

\* Where anybody holds the guard nothing is stored: the status of every
\* certificate is what it was.
LEMMA GuardKeepsOut ==
    ASSUME Crt!CertInv, guard # {}, [Crt!Next]_Crt!certVars
    PROVE  /\ DOMAIN certs' = DOMAIN certs
           /\ \A i \in DOMAIN certs : certs'[i].status = certs[i].status
<1>1. CASE UNCHANGED certs
  BY <1>1
<1>2. CASE Crt!ComesDue
  BY <1>2 DEF Crt!ComesDue, Crt!CertInv, Crt!Certificate
<1>3. \A c \in CertClients : ~Crt!update_certificate(c)
  BY DEF Crt!update_certificate
<1> QED BY <1>1, <1>2, <1>3 DEF Crt!Next, Crt!Step, Crt!certVars, Crt!Request, Crt!Renew,
   Crt!Revoke, Crt!Sweep, Crt!Queue, Crt!SweepSkip, Crt!SweepRenew, Crt!SweepEnd

\* A step of one client's method leaves the guard as it is and its method no
\* more and no less of a sweep, or takes the guard for a sweep, or ends one.
LEMMA GuardFollows ==
    ASSUME Crt!CertInv, Crt!SweepGuarded, NEW c \in CertClients,
           Crt!Request(c) \/ Crt!Renew(c) \/ Crt!Revoke(c) \/ Crt!Sweep(c) \/ Crt!Step(c)
    PROVE  Crt!SweepGuarded'
<1> DEFINE Others == \A d \in CertClients \ {c} : cert_task'[d] = cert_task[d]
           Same   == Others /\ guard' = guard
                     /\ (cert_task'[c].op = "sweep" <=> cert_task[c].op = "sweep")
<1>0. cert_task = [d \in CertClients |-> cert_task[d]] /\ Crt!TaskOK(cert_task[c])
  BY DEF Crt!CertInv
<1>1. ASSUME Crt!Request(c) PROVE Same
  <2>1. PICK i, cert : cert_task' = [cert_task EXCEPT ![c] =
              [op |-> "request", id |-> i, left |-> {}, cert |-> cert,
               todo |-> <<"pending", "validating", "issued">>]]
    BY <1>1 DEF Crt!Request
  <2>2. cert_task'[c].op = "request" /\ Others
    BY <1>0, <2>1
  <2> QED BY <1>1, <2>2 DEF Crt!Request, Crt!Resting
<1>2. ASSUME Crt!Renew(c) PROVE Same
  <2>1. PICK i : cert_task' = [cert_task EXCEPT ![c] =
              [op |-> "renew", id |-> i, left |-> {}, cert |-> certs[i],
               todo |-> <<"renewing", "issued">>]]
    BY <1>2 DEF Crt!Renew
  <2>2. cert_task'[c].op = "renew" /\ Others
    BY <1>0, <2>1
  <2> QED BY <1>2, <2>2 DEF Crt!Renew, Crt!Resting
<1>3. ASSUME Crt!Revoke(c) PROVE Same
  <2>1. PICK i : cert_task' = [cert_task EXCEPT ![c] =
              [op |-> "revoke", id |-> i, left |-> {}, cert |-> certs[i],
               todo |-> <<"revoked">>]]
    BY <1>3 DEF Crt!Revoke
  <2>2. cert_task'[c].op = "revoke" /\ Others
    BY <1>0, <2>1
  <2> QED BY <1>3, <2>2 DEF Crt!Revoke, Crt!Resting
<1>4. CASE Crt!Sweep(c) \/ Crt!SweepEnd(c)
  <2>1. CASE Crt!Sweep(c)
    <3>1. PICK i : cert_task' = [cert_task EXCEPT ![c] =
              [op |-> "sweep", id |-> i, left |-> DOMAIN certs, cert |-> certs[i],
               todo |-> <<>>]]
      BY <2>1 DEF Crt!Sweep
    <3>2. cert_task'[c].op = "sweep" /\ Others
      BY <1>0, <3>1
    <3>3. guard' = guard \cup {c}
      BY <2>1 DEF Crt!Sweep
    <3> QED BY <3>2, <3>3 DEF Crt!SweepGuarded
  <2>2. CASE Crt!SweepEnd(c)
    <3>1. cert_task'[c] = Crt!Resting /\ Others /\ guard' = guard \ {c}
      BY <1>0, <2>2 DEF Crt!SweepEnd
    <3>2. cert_task'[c].op = "none"
      BY <3>1 DEF Crt!Resting
    <3> QED BY <3>1, <3>2 DEF Crt!SweepGuarded
  <2> QED BY <1>4, <2>1, <2>2
<1>5. ASSUME Crt!Queue(c) PROVE Same
  BY <1>5 DEF Crt!Queue
<1>6. ASSUME Crt!update_certificate(c) PROVE Same
  <2>1. cert_task[c].op # "sweep" /\ guard' = guard
    BY <1>6 DEF Crt!update_certificate, Crt!SweepGuarded
  <2> DEFINE t    == cert_task[c]
             cert == [t.cert EXCEPT !.status = Head(t.todo),
                                    !.due = IF Head(t.todo) = "issued" THEN FALSE ELSE @]
             more == [t EXCEPT !.cert = cert, !.todo = Tail(@)]
             to   == IF Tail(t.todo) = <<>> /\ t.op # "sweep" THEN Crt!Resting ELSE more
  <2>2. cert_task' = [cert_task EXCEPT ![c] = to]
    BY <1>6 DEF Crt!update_certificate
  <2>3. more.op = t.op
    BY <1>0 DEF Crt!TaskOK, Crt!Resting
  <2>4. to.op # "sweep"
    BY <2>1, <2>3 DEF Crt!Resting
  <2> HIDE DEF to
  <2>5. cert_task'[c] = to /\ Others
    BY <1>0, <2>2
  <2> QED BY <2>1, <2>4, <2>5
<1>7. ASSUME Crt!SweepSkip(c) PROVE Same
  <2>1. PICK i \in cert_task[c].left :
           cert_task' = [cert_task EXCEPT ![c] = [cert_task[c] EXCEPT !.left = @ \ {i}]]
    BY <1>0, <1>7 DEF Crt!SweepSkip
  <2>2. [cert_task[c] EXCEPT !.left = @ \ {i}].op = cert_task[c].op
    BY <1>0 DEF Crt!TaskOK, Crt!Resting
  <2>3. cert_task'[c] = [cert_task[c] EXCEPT !.left = @ \ {i}] /\ Others
    BY <1>0, <2>1
  <2> QED BY <1>7, <2>2, <2>3 DEF Crt!SweepSkip
<1>8. ASSUME Crt!SweepRenew(c) PROVE Same
  BY <1>0, <1>8 DEF Crt!SweepRenew, Crt!Sweeping
<1>9. Crt!Queue(c) \/ Crt!SweepSkip(c) \/ Crt!SweepRenew(c) \/ Crt!update_certificate(c)
      \/ Crt!Request(c) \/ Crt!Renew(c) \/ Crt!Revoke(c) => Same
  BY <1>1, <1>2, <1>3, <1>5, <1>6, <1>7, <1>8
<1>10. Same => Crt!SweepGuarded'
  BY DEF Crt!SweepGuarded
<1> QED BY <1>4, <1>9, <1>10 DEF Crt!Step

LEMMA GuardKeeps ==
    Crt!CertInv /\ Crt!SweepGuarded /\ [Crt!Next]_Crt!certVars => Crt!SweepGuarded'
<1> SUFFICES ASSUME Crt!CertInv, Crt!SweepGuarded, [Crt!Next]_Crt!certVars
             PROVE  Crt!SweepGuarded'
  OBVIOUS
<1>1. CASE UNCHANGED <<cert_task, guard>>
  BY <1>1 DEF Crt!SweepGuarded
<1>2. CASE Crt!ComesDue
  BY <1>2 DEF Crt!ComesDue, Crt!SweepGuarded
<1> QED BY <1>1, <1>2, GuardFollows DEF Crt!Next, Crt!certVars

\* check_renewals keeps its read guard while renew_certificate asks for the
\* write lock: once a sweep has begun a renewal it is at that point for ever,
\* and no method stores a certificate any more.
THEOREM SweepIsStuckForGood == CPSpec => Crt!SweepStuckForGood
<1>1. Crt!Init => Crt!SweepGuarded
  BY DEF Crt!Init, Crt!SweepGuarded, Crt!Resting
<1>2. Crt!CertInv /\ Crt!SweepGuarded /\ [Crt!Next]_Crt!certVars
      => [\A c \in CertClients : cert_task[c].op = "sweep" /\ cert_task[c].todo # <<>> =>
             /\ cert_task'[c] = cert_task[c]
             /\ DOMAIN certs' = DOMAIN certs
             /\ \A i \in DOMAIN certs : certs'[i].status = certs[i].status]_Crt!certVars
  <2> SUFFICES ASSUME Crt!CertInv, Crt!SweepGuarded, Crt!Next, NEW c \in CertClients,
                      cert_task[c].op = "sweep", cert_task[c].todo # <<>>
               PROVE  /\ cert_task'[c] = cert_task[c]
                      /\ DOMAIN certs' = DOMAIN certs
                      /\ \A i \in DOMAIN certs : certs'[i].status = certs[i].status
    OBVIOUS
  <2>1. guard # {}
    BY DEF Crt!SweepGuarded
  <2>2. cert_task'[c] = cert_task[c]
    <3>1. CASE Crt!ComesDue
      BY <3>1 DEF Crt!ComesDue
    <3>2. ASSUME NEW d \in CertClients,
                 Crt!Request(d) \/ Crt!Renew(d) \/ Crt!Revoke(d) \/ Crt!Sweep(d) \/ Crt!Step(d)
          PROVE  cert_task' = cert_task \/ (d # c /\ \E to : cert_task' = [cert_task EXCEPT ![d] = to])
      BY <2>1, <3>2 DEF Crt!Request, Crt!Renew, Crt!Revoke, Crt!Sweep, Crt!Step, Crt!Queue,
         Crt!update_certificate, Crt!SweepSkip, Crt!SweepRenew, Crt!SweepEnd, Crt!Sweeping,
         Crt!Resting, Crt!CertInv
    <3> QED BY <3>1, <3>2 DEF Crt!Next, Crt!CertInv
  <2> QED BY <2>1, <2>2, GuardKeepsOut
<1> QED BY Starts, Steps, InitCerts, NextKeeps, GuardKeeps, <1>1, <1>2, PTL
        DEF CPSpec, Crt!SweepStuckForGood

-----------------------------------------------------------------------------
\* The instance's copies of operators are the operators.
LEMMA SameCardinality == \A S : Bq!Cardinality(S) = Cardinality(S)
BY DEF Bq!Cardinality, Cardinality

LEMMA SameRetain == \A s, T : Bq!Retain(s, T) = Retain(s, T)
<1>1. \A P, i : Bq!Rank(P, i) = Rank(P, i)
  BY SameCardinality DEF Bq!Rank, Rank
<1>2. \A P, n : Bq!Nth(P, n) = Nth(P, n)
  BY <1>1 DEF Bq!Nth, Nth
<1>3. \A s, T : Bq!Positions(s, T) = Positions(s, T)
  BY DEF Bq!Positions, Positions
<1> QED BY <1>2, <1>3, SameCardinality DEF Bq!Retain, Retain

LEMMA InitQueue == Bq!Init => Bq!QueueInv
<1> SUFFICES ASSUME Bq!Init PROVE Bq!QueueInv
  OBVIOUS
<1> USE ControlPlaneAssumption
<1>1. {b \in Builds : stage[b] \in Bq!Holding} = {}
  BY DEF Bq!Init, Bq!Holding
<1>2. Cardinality({b \in Builds : stage[b] \in Bq!Holding}) = 0
  BY <1>1, FS_EmptySet, Zenon
<1>4. Bq!PermitsAccounted
  BY <1>2, SameCardinality DEF Bq!Init, Bq!PermitsAccounted
<1>3. Bq!TypeOK /\ Bq!PendingNotStarted
  BY DEF Bq!Init, Bq!TypeOK, Bq!PendingNotStarted, Bq!Elements, Bq!Stages
<1> QED BY <1>3, <1>4 DEF Bq!Init, Bq!QueueInv

\* A move of one build, and the permit it takes or gives back.
LEMMA MoveAccounted ==
    ASSUME Bq!QueueInv, NEW b \in Builds, NEW s \in Bq!Stages, Bq!Move(b, s),
           \/ permits' = permits /\ (stage[b] \in Bq!Holding <=> s \in Bq!Holding)
           \/ permits > 0 /\ permits' = permits - 1 /\ stage[b] \notin Bq!Holding /\ s \in Bq!Holding
           \/ permits' = permits + 1 /\ stage[b] \in Bq!Holding /\ s \notin Bq!Holding
    PROVE  /\ Bq!PermitsAccounted' /\ permits' \in 0 .. MaxConcurrent
           /\ stage' \in [Builds -> Bq!Stages] /\ stage'[b] = s
           /\ \A other \in Builds \ {b} : stage'[other] = stage[other]
<1> DEFINE H == {x \in Builds : stage[x] \in Bq!Holding}
           G == {x \in Builds : stage'[x] \in Bq!Holding}
<1>1. /\ stage' \in [Builds -> Bq!Stages] /\ stage'[b] = s
      /\ \A other \in Builds \ {b} : stage'[other] = stage[other]
  BY DEF Bq!QueueInv, Bq!TypeOK, Bq!Move
<1>2. IsFiniteSet(H) /\ IsFiniteSet(G) /\ Cardinality(H) \in Nat /\ Cardinality(G) \in Nat
  BY ControlPlaneAssumption, FS_Subset, FS_CardinalityType
<1>3. permits + Cardinality(H) = MaxConcurrent /\ permits \in Nat /\ MaxConcurrent \in Nat
  BY ControlPlaneAssumption, SameCardinality DEF Bq!QueueInv, Bq!PermitsAccounted, Bq!TypeOK
<1>4. permits' + Cardinality(G) = MaxConcurrent /\ permits' \in Nat
  <2>1. CASE permits' = permits /\ (stage[b] \in Bq!Holding <=> s \in Bq!Holding)
    <3>1. G = H
      BY <1>1, <2>1
    <3> QED BY <1>3, <2>1, <3>1
  <2>2. CASE permits > 0 /\ permits' = permits - 1 /\ stage[b] \notin Bq!Holding /\ s \in Bq!Holding
    <3>1. G = H \cup {b} /\ b \notin H
      BY <1>1, <2>2
    <3>2. Cardinality(G) = Cardinality(H) + 1
      BY <1>2, <3>1, FS_AddElement
    <3> QED BY <1>2, <1>3, <2>2, <3>2
  <2>3. CASE permits' = permits + 1 /\ stage[b] \in Bq!Holding /\ s \notin Bq!Holding
    <3>1. G = H \ {b} /\ b \in H
      BY <1>1, <2>3
    <3>2. Cardinality(H \ {b}) = Cardinality(H) - 1
      <4> HIDE DEF H
      <4> QED BY <1>2, <3>1, FS_RemoveElement
    <3> HIDE DEF G, H
    <3>3. Cardinality(G) = Cardinality(H) - 1
      BY <3>1, <3>2
    <3> QED BY <1>2, <1>3, <2>3, <3>3
  <2> QED BY <2>1, <2>2, <2>3
<1>5. permits' \in 0 .. MaxConcurrent
  BY <1>2, <1>3, <1>4
<1> QED BY <1>1, <1>4, <1>5, SameCardinality DEF Bq!PermitsAccounted

\* What cancelling or claiming a build leaves of the list.
LEMMA WithoutLeaves ==
    ASSUME Bq!QueueInv, NEW b \in Builds, pending' = Bq!Without(pending, b)
    PROVE  /\ pending' \in Seq(Builds)
           /\ Bq!Elements(pending)' = Bq!Elements(pending) \ {b}
           /\ \A i, j \in 1 .. Len(pending') : i # j => pending'[i] # pending'[j]
<1> DEFINE T == Builds \ {b}
           t == Retain(pending, T)
<1>1. pending' = t
  BY SameRetain DEF Bq!Without
<1>2. pending \in Seq(Builds)
      /\ \A i, j \in 1 .. Len(pending) : i # j => pending[i] # pending[j]
  BY DEF Bq!QueueInv, Bq!TypeOK
<1>3. \A i \in 1 .. Len(pending) : pending[i] \in Builds
  BY <1>2
<1> HIDE DEF T, t
<1>4. /\ t \in Seq(Builds)
      /\ \A n \in 1 .. Len(t) : t[n] \in T /\ \E i \in 1 .. Len(pending) : t[n] = pending[i]
      /\ \A i \in 1 .. Len(pending) : pending[i] \in T => \E n \in 1 .. Len(t) : t[n] = pending[i]
      /\ \A m, n \in 1 .. Len(t) : m # n => t[m] # t[n]
  BY <1>2, RetainElements DEF t
<1>5. {t[n] : n \in 1 .. Len(t)} = {pending[i] : i \in 1 .. Len(pending)} \ {b}
  BY <1>3, <1>4 DEF T
<1>6. Bq!Elements(pending)' = Bq!Elements(pending) \ {b}
  BY <1>1, <1>5 DEF Bq!Elements
<1> QED BY <1>1, <1>4, <1>6

\* Listing a build that is not listed yet.
LEMMA InsertLists ==
    ASSUME Bq!QueueInv, NEW b \in Builds, b \notin Bq!Elements(pending),
           pending' = Bq!InsertSorted(pending, b)
    PROVE  /\ pending' \in Seq(Builds)
           /\ Bq!Elements(pending)' \subseteq Bq!Elements(pending) \cup {b}
           /\ \A i, j \in 1 .. Len(pending') : i # j => pending'[i] # pending'[j]
<1> DEFINE T == {other \in Builds : Priority[other] >= Priority[b]}
           U == {other \in Builds : Priority[other] < Priority[b]}
           t == Retain(pending, T)
           u == Retain(pending, U)
<1>1. pending' = (t \o <<b>>) \o u
  BY SameRetain DEF Bq!InsertSorted
<1>2. pending \in Seq(Builds)
      /\ \A i, j \in 1 .. Len(pending) : i # j => pending[i] # pending[j]
  BY DEF Bq!QueueInv, Bq!TypeOK
<1>3. T \cap U = {}
  <2>1. \A x \in Builds : Priority[x] \in Nat
    BY ControlPlaneAssumption
  <2> QED BY <2>1
<1>4. \A i \in 1 .. Len(pending) : pending[i] # b
  BY DEF Bq!Elements
<1> HIDE DEF T, U, t, u
<1>5. /\ t \in Seq(Builds) /\ Len(t) \in Nat
      /\ \A n \in 1 .. Len(t) : t[n] \in T /\ \E i \in 1 .. Len(pending) : t[n] = pending[i]
      /\ \A m, n \in 1 .. Len(t) : m # n => t[m] # t[n]
  BY <1>2, RetainElements DEF t
<1>6. /\ u \in Seq(Builds) /\ Len(u) \in Nat
      /\ \A n \in 1 .. Len(u) : u[n] \in U /\ \E i \in 1 .. Len(pending) : u[n] = pending[i]
      /\ \A m, n \in 1 .. Len(u) : m # n => u[m] # u[n]
  BY <1>2, RetainElements DEF u
<1>7. /\ pending' \in Seq(Builds) /\ Len(pending') = Len(t) + 1 + Len(u)
      /\ \A i \in 1 .. Len(pending') :
           \/ i <= Len(t) /\ i \in 1 .. Len(t) /\ pending'[i] = t[i]
           \/ i = Len(t) + 1 /\ pending'[i] = b
           \/ i > Len(t) + 1 /\ i - Len(t) - 1 \in 1 .. Len(u) /\ pending'[i] = u[i - Len(t) - 1]
  BY <1>1, <1>5, <1>6
<1>8. \A m \in 1 .. Len(t) : t[m] # b
  BY <1>4, <1>5
<1>9. \A m \in 1 .. Len(u) : u[m] # b
  BY <1>4, <1>6
<1>10. \A m \in 1 .. Len(t) : \A n \in 1 .. Len(u) : t[m] # u[n]
  BY <1>3, <1>5, <1>6
<1>11. ASSUME NEW i \in 1 .. Len(pending'), NEW j \in 1 .. Len(pending'), i < j
       PROVE  pending'[i] # pending'[j]
  <2>1. i \in Nat /\ j \in Nat /\ Len(t) \in Nat
    BY <1>7, <1>5, <1>6
  <2>2. CASE i <= Len(t)
    <3>1. i \in 1 .. Len(t) /\ pending'[i] = t[i]
      BY <1>7, <2>1, <2>2
    <3>2. CASE j <= Len(t)
      <4>1. j \in 1 .. Len(t) /\ pending'[j] = t[j] /\ i # j
        BY <1>7, <1>11, <2>1, <3>2
      <4> QED BY <1>5, <3>1, <4>1
    <3>3. CASE j = Len(t) + 1
      <4>1. pending'[j] = b
        BY <1>7, <2>1, <3>3
      <4> QED BY <1>8, <3>1, <4>1
    <3>4. CASE j > Len(t) + 1
      <4>1. j - Len(t) - 1 \in 1 .. Len(u) /\ pending'[j] = u[j - Len(t) - 1]
        BY <1>7, <2>1, <3>4
      <4> QED BY <1>10, <3>1, <4>1
    <3> QED BY <2>1, <3>2, <3>3, <3>4
  <2>3. CASE ~(i <= Len(t))
    <3>1. j > Len(t) + 1
      BY <1>11, <2>1, <2>3
    <3>2. j - Len(t) - 1 \in 1 .. Len(u) /\ pending'[j] = u[j - Len(t) - 1]
      BY <1>7, <2>1, <3>1
    <3>3. CASE i = Len(t) + 1
      <4>1. pending'[i] = b
        BY <1>7, <2>1, <3>3
      <4> QED BY <1>9, <3>2, <4>1
    <3>4. CASE i > Len(t) + 1
      <4>1. i - Len(t) - 1 \in 1 .. Len(u) /\ pending'[i] = u[i - Len(t) - 1]
        BY <1>7, <2>1, <3>4
      <4>2. i - Len(t) - 1 # j - Len(t) - 1
        BY <1>11, <2>1
      <4> QED BY <1>6, <3>2, <4>1, <4>2
    <3> QED BY <2>1, <2>3, <3>3, <3>4
  <2> QED BY <2>2, <2>3
<1>12. \A i \in 1 .. Len(pending') : pending'[i] \in Bq!Elements(pending) \cup {b}
  <2>1. \A n \in 1 .. Len(t) : t[n] \in Bq!Elements(pending)
    BY <1>5 DEF Bq!Elements
  <2>2. \A n \in 1 .. Len(u) : u[n] \in Bq!Elements(pending)
    BY <1>6 DEF Bq!Elements
  <2> QED BY <1>7, <2>1, <2>2
<1>13. ASSUME NEW i \in 1 .. Len(pending'), NEW j \in 1 .. Len(pending'), i # j
       PROVE  pending'[i] # pending'[j]
  <2>1. Len(pending') \in Nat
    BY <1>7
  <2>2. i < j \/ j < i
    BY <1>13, <2>1
  <2> QED BY <1>11, <2>2
<1> QED BY <1>7, <1>12, <1>13 DEF Bq!Elements

\* The steps that change the list of pending builds.
LEMMA PendingKeeps ==
    ASSUME Bq!QueueInv, NEW b \in Builds, Bq!Submit(b) \/ Bq!Claim(b) \/ Bq!CancelPending(b)
    PROVE  Bq!QueueInv'
<1>1. CASE Bq!Submit(b)
  <2>1. b \notin Bq!Elements(pending)
    BY <1>1 DEF Bq!Submit, Bq!QueueInv, Bq!PendingNotStarted
  <2>2. /\ pending' \in Seq(Builds)
        /\ Bq!Elements(pending)' \subseteq Bq!Elements(pending) \cup {b}
        /\ \A i, j \in 1 .. Len(pending') : i # j => pending'[i] # pending'[j]
    BY <1>1, <2>1, InsertLists DEF Bq!Submit
  <2>3. /\ Bq!PermitsAccounted' /\ permits' \in 0 .. MaxConcurrent
        /\ stage' \in [Builds -> Bq!Stages] /\ stage'[b] = "sending"
        /\ \A other \in Builds \ {b} : stage'[other] = stage[other]
    <3>1. "sending" \in Bq!Stages /\ Bq!Move(b, "sending") /\ permits' = permits
          /\ (stage[b] \in Bq!Holding <=> "sending" \in Bq!Holding)
      BY <1>1 DEF Bq!Submit, Bq!Stages, Bq!Holding
    <3> QED BY <3>1, MoveAccounted
  <2>4. Bq!PendingNotStarted'
    BY <1>1, <2>2, <2>3 DEF Bq!QueueInv, Bq!PendingNotStarted, Bq!Elements
  <2>5. UNCHANGED <<executing, completed, channel, cancelling>> /\ stage[b] = "new"
    BY <1>1 DEF Bq!Submit
  <2> QED BY <2>2, <2>3, <2>4, <2>5 DEF Bq!QueueInv, Bq!TypeOK
<1>2. CASE Bq!Claim(b) /\ b \in Bq!Elements(pending)
  <2>1. /\ pending' \in Seq(Builds)
        /\ Bq!Elements(pending)' = Bq!Elements(pending) \ {b}
        /\ \A i, j \in 1 .. Len(pending') : i # j => pending'[i] # pending'[j]
    BY <1>2, WithoutLeaves DEF Bq!Claim
  <2>2. /\ Bq!PermitsAccounted' /\ permits' \in 0 .. MaxConcurrent
        /\ stage' \in [Builds -> Bq!Stages] /\ stage'[b] = "claimed"
        /\ \A other \in Builds \ {b} : stage'[other] = stage[other]
    <3>1. "claimed" \in Bq!Stages /\ Bq!Move(b, "claimed") /\ permits' = permits
          /\ (stage[b] \in Bq!Holding <=> "claimed" \in Bq!Holding)
      BY <1>2 DEF Bq!Claim, Bq!Stages, Bq!Holding
    <3> QED BY <3>1, MoveAccounted
  <2>3. Bq!PendingNotStarted'
    BY <2>1, <2>2 DEF Bq!QueueInv, Bq!PendingNotStarted, Bq!Elements
  <2>4. UNCHANGED <<executing, completed, channel, cancelling>> /\ stage[b] = "permitted"
    BY <1>2 DEF Bq!Claim
  <2>5. /\ \A i \in 1 .. Len(channel) : stage'[channel[i]] = "queued"
        /\ \A x \in DOMAIN executing : stage'[x] \in {"executing", "executed"}
        /\ \A x \in DOMAIN completed : stage'[x] = "finished"
    BY <2>2, <2>4 DEF Bq!QueueInv, Bq!TypeOK
  <2> QED BY <2>1, <2>2, <2>3, <2>4, <2>5 DEF Bq!QueueInv, Bq!TypeOK
<1>3. CASE Bq!Claim(b) /\ b \notin Bq!Elements(pending)
  <2>1. /\ Bq!PermitsAccounted' /\ permits' \in 0 .. MaxConcurrent
        /\ stage' \in [Builds -> Bq!Stages] /\ stage'[b] = "finished"
        /\ \A other \in Builds \ {b} : stage'[other] = stage[other]
    <3>1. "finished" \in Bq!Stages /\ Bq!Move(b, "finished") /\ permits' = permits + 1
          /\ stage[b] \in Bq!Holding /\ "finished" \notin Bq!Holding
      BY <1>3 DEF Bq!Claim, Bq!Stages, Bq!Holding
    <3> QED BY <3>1, MoveAccounted
  <2>2. UNCHANGED <<pending, executing, completed, channel, cancelling>> /\ stage[b] = "permitted"
    BY <1>3 DEF Bq!Claim
  <2>3. Bq!PendingNotStarted'
    BY <1>3, <2>1, <2>2 DEF Bq!QueueInv, Bq!PendingNotStarted, Bq!Elements, Bq!TypeOK
  <2>4. /\ \A i \in 1 .. Len(channel) : stage'[channel[i]] = "queued"
        /\ \A x \in DOMAIN executing : stage'[x] \in {"executing", "executed"}
        /\ \A x \in DOMAIN completed : stage'[x] = "finished"
    BY <2>1, <2>2 DEF Bq!QueueInv, Bq!TypeOK
  <2> QED BY <2>1, <2>2, <2>3, <2>4 DEF Bq!QueueInv, Bq!TypeOK
<1>4. CASE Bq!CancelPending(b)
  <2>1. UNCHANGED <<executing, completed, channel, permits, stage>> /\ cancelling' \subseteq Builds
    BY <1>4 DEF Bq!CancelPending, Bq!QueueInv, Bq!TypeOK
  <2>2. /\ pending' \in Seq(Builds)
        /\ Bq!Elements(pending)' \subseteq Bq!Elements(pending)
        /\ \A i, j \in 1 .. Len(pending') : i # j => pending'[i] # pending'[j]
    <3>1. CASE pending' = Bq!Without(pending, b)
      BY <3>1, WithoutLeaves
    <3>2. CASE pending' = pending
      BY <3>2 DEF Bq!QueueInv, Bq!TypeOK, Bq!Elements
    <3> QED BY <1>4, <3>1, <3>2 DEF Bq!CancelPending
  <2>3. Bq!PendingNotStarted' /\ Bq!PermitsAccounted'
    BY <2>1, <2>2 DEF Bq!QueueInv, Bq!PendingNotStarted, Bq!PermitsAccounted
  <2> QED BY <2>1, <2>2, <2>3 DEF Bq!QueueInv, Bq!TypeOK
<1> QED BY <1>1, <1>2, <1>3, <1>4

\* The steps of the channel.
LEMMA ChannelKeeps ==
    ASSUME Bq!QueueInv, Bq!Receive \/ \E b \in Builds : Bq!Send(b)
    PROVE  Bq!QueueInv'
<1>1. ASSUME NEW b \in Builds, Bq!Send(b) PROVE Bq!QueueInv'
  <2>1. /\ Bq!PermitsAccounted' /\ permits' \in 0 .. MaxConcurrent
        /\ stage' \in [Builds -> Bq!Stages] /\ stage'[b] = "queued"
        /\ \A other \in Builds \ {b} : stage'[other] = stage[other]
    <3>1. "queued" \in Bq!Stages /\ Bq!Move(b, "queued") /\ permits' = permits
          /\ (stage[b] \in Bq!Holding <=> "queued" \in Bq!Holding)
      BY <1>1 DEF Bq!Send, Bq!Stages, Bq!Holding
    <3> QED BY <3>1, MoveAccounted
  <2>2. UNCHANGED <<pending, executing, completed, cancelling>> /\ stage[b] = "sending"
        /\ channel' = Append(channel, b)
    BY <1>1 DEF Bq!Send
  <2>3. channel \in Seq(Builds) /\ \A i \in 1 .. Len(channel) : channel[i] # b
    BY <2>2 DEF Bq!QueueInv, Bq!TypeOK
  <2>4. /\ channel' \in Seq(Builds)
        /\ \A i, j \in 1 .. Len(channel') : i # j => channel'[i] # channel'[j]
        /\ \A i \in 1 .. Len(channel') : stage'[channel'[i]] = "queued"
    BY <2>1, <2>2, <2>3 DEF Bq!QueueInv
  <2>5. Bq!PendingNotStarted'
    BY <2>1, <2>2 DEF Bq!QueueInv, Bq!PendingNotStarted, Bq!Elements, Bq!TypeOK
  <2> QED BY <2>1, <2>2, <2>4, <2>5 DEF Bq!QueueInv, Bq!TypeOK
<1>2. ASSUME Bq!Receive PROVE Bq!QueueInv'
  <2> DEFINE b == Head(channel)
  <2>1. channel \in Seq(Builds) /\ channel # <<>> /\ b \in Builds /\ b = channel[1]
        /\ Len(channel) \in Nat \ {0} /\ stage[b] = "queued"
    BY <1>2 DEF Bq!Receive, Bq!QueueInv, Bq!TypeOK
  <2>2. /\ Bq!PermitsAccounted' /\ permits' \in 0 .. MaxConcurrent
        /\ stage' \in [Builds -> Bq!Stages] /\ stage'[b] = "received"
        /\ \A other \in Builds \ {b} : stage'[other] = stage[other]
    <3>1. "received" \in Bq!Stages /\ Bq!Move(b, "received") /\ permits' = permits
          /\ (stage[b] \in Bq!Holding <=> "received" \in Bq!Holding)
      BY <1>2, <2>1 DEF Bq!Receive, Bq!Stages, Bq!Holding
    <3> QED BY <2>1, <3>1, MoveAccounted
  <2>3. UNCHANGED <<pending, executing, completed, cancelling>> /\ channel' = Tail(channel)
    BY <1>2 DEF Bq!Receive
  <2>4. /\ channel' \in Seq(Builds) /\ Len(channel') = Len(channel) - 1
        /\ \A i \in 1 .. Len(channel') :
             i + 1 \in 1 .. Len(channel) /\ channel'[i] = channel[i + 1] /\ channel'[i] \in Builds
    BY <2>1, <2>3
  <2>5. \A i \in 1 .. Len(channel) : i # 1 => channel[i] # b
    BY <2>1 DEF Bq!QueueInv
  <2>6. \A i, j \in 1 .. Len(channel') : i # j => channel'[i] # channel'[j]
    BY <2>1, <2>4 DEF Bq!QueueInv
  <2>7. \A i \in 1 .. Len(channel') : stage'[channel'[i]] = "queued"
    <3> SUFFICES ASSUME NEW i \in 1 .. Len(channel') PROVE stage'[channel'[i]] = "queued"
      OBVIOUS
    <3>1. i + 1 # 1 /\ channel'[i] # b /\ stage[channel[i + 1]] = "queued"
      BY <2>1, <2>4, <2>5 DEF Bq!QueueInv
    <3> QED BY <2>2, <2>4, <3>1
  <2>8. Bq!PendingNotStarted'
    BY <2>1, <2>2, <2>3 DEF Bq!QueueInv, Bq!PendingNotStarted, Bq!Elements, Bq!TypeOK
  <2> HIDE DEF b
  <2>9. Bq!TypeOK'
    BY <2>2, <2>3, <2>4 DEF Bq!QueueInv, Bq!TypeOK
  <2>10. /\ \A x \in DOMAIN executing : stage'[x] \in {"executing", "executed"}
         /\ \A x \in DOMAIN completed : stage'[x] = "finished"
    <3>1. \A x \in DOMAIN executing \cup DOMAIN completed : x # b /\ x \in Builds
      BY <2>1 DEF Bq!QueueInv, Bq!TypeOK
    <3> QED BY <2>2, <3>1 DEF Bq!QueueInv
  <2> QED BY <2>2, <2>3, <2>6, <2>7, <2>8, <2>9, <2>10 DEF Bq!QueueInv
<1> QED BY <1>1, <1>2

\* The steps of a build's task, and of a cancel, in the other two lists.
LEMMA TaskKeeps ==
    ASSUME Bq!QueueInv, NEW b \in Builds,
           Bq!Acquire(b) \/ Bq!ListRunning(b) \/ Bq!Execute(b) \/ Bq!Unlist(b) \/ Bq!Complete(b)
    PROVE  Bq!QueueInv'
<1>1. UNCHANGED <<pending, channel, cancelling>>
  BY DEF Bq!Acquire, Bq!ListRunning, Bq!Execute, Bq!Unlist, Bq!Complete
<1>2. PICK s \in {"permitted", "executing", "executed", "unlisted", "finished"} :
        /\ Bq!Move(b, s)
        /\ \/ permits' = permits /\ stage[b] \in Bq!Holding /\ s \in Bq!Holding
           \/ permits > 0 /\ permits' = permits - 1 /\ stage[b] \notin Bq!Holding /\ s \in Bq!Holding
           \/ permits' = permits + 1 /\ stage[b] \in Bq!Holding /\ s \notin Bq!Holding
        /\ stage[b] = "received" => s = "permitted"
        /\ stage[b] \in {"received", "claimed", "executing", "executed", "unlisted"}
        /\ \/ UNCHANGED executing /\ stage[b] # "executed"
           \/ executing' = Bq!Set(executing, b, "Running") /\ s = "executing"
           \/ executing' = Bq!Drop(executing, b)
        /\ stage[b] = "executing" => s = "executed"
        /\ \/ UNCHANGED completed
           \/ completed' = Bq!Set(completed, b, "Success") /\ s = "finished"
  BY Zenon DEF Bq!Acquire, Bq!ListRunning, Bq!Execute, Bq!Unlist, Bq!Complete, Bq!Holding
<1>3. s \in Bq!Stages
  BY <1>2 DEF Bq!Stages
<1>4. /\ Bq!PermitsAccounted' /\ permits' \in 0 .. MaxConcurrent
      /\ stage' \in [Builds -> Bq!Stages] /\ stage'[b] = s
      /\ \A other \in Builds \ {b} : stage'[other] = stage[other]
  BY <1>2, <1>3, MoveAccounted
<1>5. Bq!PendingNotStarted'
  BY <1>1, <1>2, <1>4 DEF Bq!QueueInv, Bq!PendingNotStarted, Bq!Elements, Bq!TypeOK
<1>6. /\ DOMAIN executing' \subseteq Builds
      /\ \A x \in DOMAIN executing' : executing'[x] \in {"Running", "Cancelled"}
                                      /\ stage'[x] \in {"executing", "executed"}
  BY <1>2, <1>4 DEF Bq!QueueInv, Bq!TypeOK, Bq!Set, Bq!Drop
<1>7. /\ DOMAIN completed' \subseteq Builds
      /\ \A x \in DOMAIN completed' : completed'[x] = "Success" /\ stage'[x] = "finished"
  BY <1>2, <1>4 DEF Bq!QueueInv, Bq!TypeOK, Bq!Set
<1>8. \A i \in 1 .. Len(channel') : stage'[channel'[i]] = "queued"
  BY <1>1, <1>2, <1>4 DEF Bq!QueueInv, Bq!TypeOK
<1> QED BY <1>1, <1>4, <1>5, <1>6, <1>7, <1>8 DEF Bq!QueueInv, Bq!TypeOK

\* However submit, cancel and the tasks of the builds interleave between the
\* locks, the three lists, the permits and the tasks agree.
THEOREM QueueAgrees == CPSpec => []QueueConsistent
<1>1. Bq!QueueInv /\ [Bq!Next]_Bq!vars => Bq!QueueInv'
  <2> SUFFICES ASSUME Bq!QueueInv, [Bq!Next]_Bq!vars PROVE Bq!QueueInv'
    OBVIOUS
  <2>1. CASE UNCHANGED Bq!vars
    BY <2>1 DEF Bq!vars, Bq!QueueInv, Bq!TypeOK, Bq!PermitsAccounted, Bq!PendingNotStarted,
       Bq!Elements
  <2>2. ASSUME NEW b \in Builds, Bq!CancelRunning(b) PROVE Bq!QueueInv'
    <3>1. UNCHANGED <<pending, completed, channel, permits, stage>>
          /\ cancelling' \subseteq cancelling
          /\ \/ b \in DOMAIN executing /\ executing' = Bq!Set(executing, b, "Cancelled")
             \/ UNCHANGED executing
      BY <2>2 DEF Bq!CancelRunning
    <3>2. /\ DOMAIN executing' \subseteq DOMAIN executing
          /\ \A x \in DOMAIN executing' : executing'[x] \in {executing[x], "Cancelled"}
      BY <3>1 DEF Bq!Set
    <3>3. Bq!PendingNotStarted' /\ Bq!PermitsAccounted'
      BY <3>1 DEF Bq!QueueInv, Bq!PendingNotStarted, Bq!PermitsAccounted, Bq!Elements
    <3> QED BY <3>1, <3>2, <3>3 DEF Bq!QueueInv, Bq!TypeOK
  <2> QED BY <2>1, <2>2, PendingKeeps, ChannelKeeps, TaskKeeps DEF Bq!Next, Bq!Work
<1>2. Bq!QueueInv => QueueConsistent
  <2> SUFFICES ASSUME Bq!QueueInv PROVE QueueConsistent
    OBVIOUS
  <2>1. \A b \in Builds : Bq!Cardinality({i \in 1 .. Len(pending) : pending[i] = b}) <= 1
    <3> SUFFICES ASSUME NEW b \in Builds
                 PROVE  Cardinality({i \in 1 .. Len(pending) : pending[i] = b}) <= 1
      BY SameCardinality
    <3> DEFINE P == {i \in 1 .. Len(pending) : pending[i] = b}
    <3>1. CASE P = {}
      <4>1. Cardinality(P) = 0
        BY <3>1, FS_EmptySet
      <4> QED BY <4>1
    <3>2. CASE P # {}
      <4>1. PICK i \in P : TRUE
        BY <3>2
      <4>2. P = {i}
        BY <4>1 DEF Bq!QueueInv
      <4>3. Cardinality(P) = 1
        <5> HIDE DEF P
        <5> QED BY <4>2, FS_Singleton
      <4> QED BY <4>3
    <3> QED BY <3>1, <3>2
  <2>2. Bq!ListedOnce
    BY <2>1 DEF Bq!QueueInv, Bq!ListedOnce, Bq!PendingNotStarted, Bq!TypeOK
  <2> QED BY <2>2 DEF Bq!QueueInv, Bq!QueueConsistent, QueueConsistent
<1> QED BY Starts, Steps, InitQueue, <1>1, <1>2, PTL DEF CPSpec
-----------------------------------------------------------------------------
\* A peer is declared dead only after three checks in a row found it silent,
\* whatever messages come late or twice.
THEOREM DeadWereSilent == CPSpec => []DeadOnlyIfSilent
<1> USE ControlPlaneAssumption
<1>1. Fed!Init => Fed!FederationInv
  BY DEF Fed!Init, Fed!FederationInv, Fed!DeadOnlyIfSilent
<1>2. Fed!FederationInv /\ [Fed!Next]_Fed!federationVars => Fed!FederationInv'
  <2> SUFFICES ASSUME Fed!FederationInv, [Fed!Next]_Fed!federationVars PROVE Fed!FederationInv'
    OBVIOUS
  <2> DEFINE Peer == [age : Nat, alive : BOOLEAN, failures : Nat]
  <2>1. ASSUME NEW p \in Regions, Fed!HandlePing(p) PROVE Fed!FederationInv'
    BY <2>1 DEF Fed!HandlePing, Fed!record_peer_ping, Fed!FederationInv, Fed!DeadOnlyIfSilent
  <2>2. CASE Fed!check_peer_health
    <3>1. \A n \in Nat : Fed!Cap(n) \in Nat /\ (n >= 3 => Fed!Cap(n) >= 3)
      BY DEF Fed!Cap
    <3>2. ASSUME NEW p \in Regions
          PROVE  /\ peers'[p] \in Peer /\ missed'[p] \in Nat
                 /\ p \in heard => missed'[p] = peers'[p].failures
                 /\ p \in heard /\ ~peers'[p].alive => missed'[p] >= 3 /\ peers'[p].age > Timeout
      <4>1. CASE peers[p].age > Timeout
        <5>1. /\ peers[p] \in Peer /\ missed[p] \in Nat
              /\ p \in heard => missed[p] = peers[p].failures
              /\ p \in heard /\ ~peers[p].alive => missed[p] >= 3
          BY DEF Fed!FederationInv, Fed!DeadOnlyIfSilent
        <5>2. /\ missed'[p] = Fed!Cap(missed[p])
              /\ peers'[p] = [peers[p] EXCEPT !.failures = Fed!Cap(@),
                               !.alive = IF Fed!Cap(peers[p].failures) >= 3 THEN FALSE ELSE @]
          BY <2>2, <4>1 DEF Fed!check_peer_health
        <5>3. /\ peers'[p] \in Peer /\ peers'[p].age = peers[p].age
              /\ peers'[p].failures = Fed!Cap(peers[p].failures)
              /\ ~peers'[p].alive => ~peers[p].alive \/ Fed!Cap(peers[p].failures) >= 3
          BY <3>1, <5>1, <5>2
        <5> QED BY <3>1, <4>1, <5>1, <5>2, <5>3
      <4>2. CASE ~(peers[p].age > Timeout)
        BY <2>2, <4>2 DEF Fed!check_peer_health, Fed!FederationInv, Fed!DeadOnlyIfSilent
      <4> QED BY <4>1, <4>2
    <3>3. /\ peers' = [p \in Regions |-> peers'[p]] /\ missed' = [p \in Regions |-> missed'[p]]
          /\ heard' = heard
      BY <2>2 DEF Fed!check_peer_health
    <3>4. peers' \in [Regions -> Peer] /\ missed' \in [Regions -> Nat]
      <4> HIDE DEF Peer
      <4> QED BY <3>2, <3>3
    <3>5. heard \subseteq Regions
      BY DEF Fed!FederationInv
    <3> QED BY <3>2, <3>3, <3>4, <3>5 DEF Fed!FederationInv, Fed!DeadOnlyIfSilent
  <2>3. CASE Fed!Tick
    <3>1. ASSUME NEW p \in Regions
          PROVE  /\ peers'[p] \in Peer /\ peers'[p].alive = peers[p].alive
                 /\ peers'[p].failures = peers[p].failures
                 /\ peers[p].age > Timeout => peers'[p].age > Timeout
      BY <2>3 DEF Fed!Tick, Fed!FederationInv
    <3>2. peers' = [p \in Regions |-> peers'[p]] /\ UNCHANGED <<missed, heard>>
      BY <2>3 DEF Fed!Tick
    <3>3. peers' \in [Regions -> Peer]
      <4> HIDE DEF Peer
      <4> QED BY <3>1, <3>2
    <3> QED BY <3>1, <3>2, <3>3 DEF Fed!FederationInv, Fed!DeadOnlyIfSilent
  <2>4. CASE UNCHANGED <<peers, missed, heard>>
    BY <2>4 DEF Fed!FederationInv, Fed!DeadOnlyIfSilent
  <2> QED BY <2>1, <2>2, <2>3, <2>4 DEF Fed!Next, Fed!federationVars, Fed!receive_peer_state,
         Fed!Publish, Fed!update_local_resources, Fed!create_cross_region_resource,
         Fed!update_resource_status
<1>3. Fed!FederationInv => DeadOnlyIfSilent
  BY DEF Fed!FederationInv, DeadOnlyIfSilent
<1> QED BY Starts, Steps, <1>1, <1>2, <1>3, PTL DEF CPSpec

-----------------------------------------------------------------------------
\* A garbage collection chooses only backups older than the retention of a
\* schedule of their resource.
THEOREM FreshAreSpared == CPSpec => []GcSparesFresh
<1> USE ControlPlaneAssumption
<1>1. Bk!Init => Bk!BackupsInv
  BY DEF Bk!Init, Bk!BackupsInv, Bk!GcSparesFresh, Bk!Tasks
<1>2. Bk!BackupsInv /\ [Bk!Next]_Bk!backupVars => Bk!BackupsInv'
  <2> SUFFICES ASSUME Bk!BackupsInv, [Bk!Next]_Bk!backupVars PROVE Bk!BackupsInv'
    OBVIOUS
  <2>1. CASE UNCHANGED Bk!backupVars
    BY <2>1 DEF Bk!backupVars, Bk!BackupsInv, Bk!GcSparesFresh, Bk!Tasks
  <2>2. CASE Bk!NextDay \/ Bk!SetBack
    <3>1. UNCHANGED <<born, backup_task, collected, backups, schedules>>
      BY <2>2 DEF Bk!NextDay, Bk!SetBack
    <3>2. Bk!Tasks' = Bk!Tasks
      BY <3>1 DEF Bk!Tasks
    <3>3. /\ day' \in Nat /\ latest' \in Nat /\ day' <= latest' /\ latest <= latest'
          /\ early \subseteq early'
          /\ \A b \in DOMAIN born : b \in early' \/ born[b].day <= day'
      BY <2>2 DEF Bk!NextDay, Bk!SetBack, Bk!BackupsInv
    <3>4. Bk!GcSparesFresh'
      BY <3>1, <3>3 DEF Bk!BackupsInv, Bk!GcSparesFresh
    <3> QED BY <3>1, <3>2, <3>3, <3>4 DEF Bk!BackupsInv
  <2>3. ASSUME NEW c \in Clients, Bk!CreateBackup(c) PROVE Bk!BackupsInv'
    <3>1. PICK b \in Bk!Fresh, r \in BackedUp :
            /\ backups' = Bk!With(backups, b, "pending")
            /\ born' = Bk!With(born, b, [resource |-> r, day |-> day])
            /\ Bk!Task(c, [do |-> "execute", id |-> b])
      BY <2>3 DEF Bk!CreateBackup
    <3>2. b \notin DOMAIN born
      BY DEF Bk!Fresh
    <3>3. /\ DOMAIN born' = DOMAIN born \cup {b} /\ born'[b].day = day
          /\ \A x \in DOMAIN born : born'[x] = born[x]
          /\ DOMAIN backups' \subseteq DOMAIN backups \cup {b}
      BY <3>1, <3>2 DEF Bk!With
    <3>4. backup_task' \in [Clients -> Bk!Tasks']
      <4>1. Bk!Tasks \subseteq Bk!Tasks' /\ [do |-> "execute", id |-> b] \in Bk!Tasks'
        BY <3>3 DEF Bk!Tasks
      <4> QED BY <3>1, <4>1 DEF Bk!Task, Bk!BackupsInv
    <3>5. UNCHANGED <<schedules, day, latest, early, collected>>
      BY <2>3 DEF Bk!CreateBackup
    <3>6. Bk!GcSparesFresh'
      BY <3>3, <3>5 DEF Bk!BackupsInv, Bk!GcSparesFresh
    <3> QED BY <3>3, <3>4, <3>5, <3>6 DEF Bk!BackupsInv
  <2>4. ASSUME NEW c \in Clients, Bk!GcChoose(c) PROVE Bk!BackupsInv'
    <3>1. PICK pick \in [DOMAIN backups -> Retentions] :
            LET doomed == {b \in DOMAIN backups : <<born[b].resource, pick[b]>> \in schedules
                                                  /\ Bk!expired(b, pick[b])}
            IN /\ Bk!Task(c, [do |-> "collect", ids |-> doomed])
               /\ collected' = collected \cup doomed
      BY <2>4 DEF Bk!GcChoose
    <3>2. UNCHANGED <<backups, schedules, day, latest, born, early>>
      BY <2>4 DEF Bk!GcChoose
    <3>3. backup_task' \in [Clients -> Bk!Tasks']
      <4>1. /\ Bk!Tasks' = Bk!Tasks
            /\ \A ids \in SUBSET DOMAIN backups : [do |-> "collect", ids |-> ids] \in Bk!Tasks
        BY <3>2 DEF Bk!Tasks, Bk!BackupsInv
      <4> QED BY <3>1, <4>1 DEF Bk!Task, Bk!BackupsInv
    <3>4. ASSUME NEW b \in DOMAIN backups, <<born[b].resource, pick[b]>> \in schedules,
                 Bk!expired(b, pick[b])
          PROVE  b \in DOMAIN born /\ \E days \in Retentions :
                    /\ <<born[b].resource, days>> \in schedules
                    /\ latest - born[b].day > days \/ b \in early
      <4>1. /\ b \in DOMAIN born /\ pick[b] \in Retentions /\ pick[b] \in Nat
            /\ day \in Nat /\ latest \in Nat /\ day <= latest /\ born[b].day \in Nat
        BY DEF Bk!BackupsInv
      <4>2. CASE b \notin early
        <5>1. day - born[b].day \in Nat
          BY <4>1, <4>2 DEF Bk!BackupsInv
        <5>2. \A x \in Nat : x % U32 <= x /\ x % U32 \in Nat
          OBVIOUS
        <5>3. (day - born[b].day) % U32 <= day - born[b].day
          BY <5>1, <5>2
        <5>4. (day - born[b].day) % U32 > pick[b] /\ (day - born[b].day) % U32 \in Nat
          BY <3>4, <5>1, <5>2 DEF Bk!expired, Bk!age_days
        <5>5. latest - born[b].day > pick[b]
          BY <4>1, <5>1, <5>3, <5>4
        <5> QED BY <3>4, <4>1, <5>5
      <4> QED BY <3>4, <4>1, <4>2
    <3>5. Bk!GcSparesFresh' /\ collected' \subseteq DOMAIN born
      BY <3>1, <3>2, <3>4 DEF Bk!GcSparesFresh, Bk!BackupsInv
    <3> QED BY <3>2, <3>3, <3>5 DEF Bk!BackupsInv
  <2>5. ASSUME NEW c \in Clients,
               \/ Bk!Progress(c) \/ Bk!Complete(c) \/ Bk!DeleteBackup(c)
               \/ Bk!CreateSchedule(c) \/ Bk!GcDelete(c)
        PROVE  Bk!BackupsInv'
    <3>1. /\ UNCHANGED <<day, latest, born, early, collected>> /\ schedules \subseteq schedules'
      BY <2>5 DEF Bk!Progress, Bk!Complete, Bk!DeleteBackup, Bk!CreateSchedule, Bk!GcDelete
    <3>5. DOMAIN backups' \subseteq DOMAIN born
      <4>1. backup_task[c].do \in {"execute", "executing"} => backup_task[c].id \in DOMAIN born
        BY DEF Bk!BackupsInv, Bk!Tasks, Bk!NoTask
      <4>2. \/ DOMAIN backups' \subseteq DOMAIN backups
            \/ /\ backup_task[c].do \in {"execute", "executing"}
               /\ DOMAIN backups' = DOMAIN backups \cup {backup_task[c].id}
        BY <2>5 DEF Bk!Progress, Bk!Complete, Bk!DeleteBackup, Bk!CreateSchedule, Bk!GcDelete,
           Bk!Removed, Bk!With
      <4> QED BY <4>1, <4>2 DEF Bk!BackupsInv
    <3>2. backup_task' \in [Clients -> Bk!Tasks]
      <4>1. backup_task[c] \in Bk!Tasks /\ Bk!NoTask \in Bk!Tasks
        BY DEF Bk!BackupsInv, Bk!Tasks
      <4>2. Bk!Progress(c) => [backup_task[c] EXCEPT !.do = "executing"] \in Bk!Tasks
        BY <4>1 DEF Bk!Progress, Bk!Tasks, Bk!NoTask
      <4>3. ASSUME NEW b, backup_task[c].do = "collect"
            PROVE  [backup_task[c] EXCEPT !.ids = @ \ {b}] \in Bk!Tasks
        BY <4>1, <4>3 DEF Bk!Tasks, Bk!NoTask
      <4>4. UNCHANGED backup_task \/ \E t \in Bk!Tasks : Bk!Task(c, t)
        BY <2>5, <4>1, <4>2, <4>3, Zenon DEF Bk!Progress, Bk!Complete, Bk!DeleteBackup,
           Bk!CreateSchedule, Bk!GcDelete
      <4> QED BY <4>4 DEF Bk!Task, Bk!BackupsInv
    <3>4. Bk!Tasks' = Bk!Tasks
      BY <3>1 DEF Bk!Tasks
    <3>3. Bk!GcSparesFresh'
      BY <3>1 DEF Bk!BackupsInv, Bk!GcSparesFresh
    <3> QED BY <3>1, <3>2, <3>3, <3>4, <3>5 DEF Bk!BackupsInv
  <2> QED BY <2>1, <2>2, <2>3, <2>4, <2>5 DEF Bk!Next
<1>3. Bk!BackupsInv => GcSparesFresh
  BY DEF Bk!BackupsInv, GcSparesFresh
<1> QED BY Starts, Steps, <1>1, <1>2, <1>3, PTL DEF CPSpec

-----------------------------------------------------------------------------
\* One more result r at the end of a history: a run of n results x ends there
\* when x is r and the counter of the run before it has come to n - 1.
LEMMA OneMore ==
    ASSUME NEW R, NEW h \in Seq(R), NEW r \in R, NEW x \in R, NEW n \in Nat, NEW s \in Nat,
           Hc!EndsWith(h, s, x)
    PROVE  LET g == Append(h, r)
           IN  /\ Hc!EndsWith(g, IF x = r THEN s + 1 ELSE 0, x)
               /\ Hc!Turns(h, n, x) \subseteq 1 .. Len(h)
               /\ Hc!Turns(g, n, x) =
                    IF x = r /\ s + 1 >= n THEN Hc!Turns(h, n, x) \cup {Len(h) + 1}
                    ELSE Hc!Turns(h, n, x)
<1> DEFINE g == Append(h, r)
           L == Len(h)
<1>1. /\ L \in Nat /\ Len(g) = L + 1 /\ g[L + 1] = r
      /\ \A i \in 1 .. L : g[i] = h[i]
  OBVIOUS
<1>2. /\ s <= L /\ \A j \in (L - s + 1) .. L : h[j] = x
      /\ s < L => h[L - s] # x
  BY DEF Hc!EndsWith
<1> HIDE DEF g, L
<1>3. Hc!EndsWith(g, IF x = r THEN s + 1 ELSE 0, x)
  <2>1. CASE x = r
    <3>1. \A j \in (L + 1 - (s + 1) + 1) .. (L + 1) : g[j] = x
      BY <1>1, <1>2, <2>1
    <3>2. s + 1 < L + 1 => g[L + 1 - (s + 1)] # x
      BY <1>1, <1>2
    <3>3. s + 1 <= L + 1
      BY <1>1, <1>2
    <3> QED BY <1>1, <2>1, <3>1, <3>2, <3>3 DEF Hc!EndsWith
  <2>2. CASE x # r
    BY <1>1, <2>2 DEF Hc!EndsWith
  <2> QED BY <2>1, <2>2
<1>4. ASSUME NEW i \in 1 .. L PROVE Hc!Run(g, i, n, x) <=> Hc!Run(h, i, n, x)
  <2>1. CASE i >= n
    <3>1. (i - n + 1) .. i \subseteq 1 .. L
      BY <1>1, <2>1
    <3> QED BY <1>1, <3>1 DEF Hc!Run
  <2>2. CASE ~(i >= n)
    BY <2>2 DEF Hc!Run
  <2> QED BY <2>1, <2>2
<1>5. Hc!Run(g, L + 1, n, x) <=> x = r /\ s + 1 >= n
  <2>1. CASE x = r /\ s + 1 >= n
    <3>1. \A j \in (L + 1 - n + 1) .. (L + 1) : g[j] = x
      BY <1>1, <1>2, <2>1
    <3> QED BY <1>1, <1>2, <2>1, <3>1 DEF Hc!Run
  <2>2. CASE x = r /\ s + 1 < n
    <3>1. CASE s < L /\ L + 1 >= n
      <4>1. L - s \in (L + 1 - n + 1) .. (L + 1) /\ L - s \in 1 .. L
        BY <1>1, <2>2, <3>1
      <4>2. g[L - s] # x
        BY <1>1, <1>2, <3>1, <4>1
      <4>3. ~ \A j \in (L + 1 - n + 1) .. (L + 1) : g[j] = x
        BY <4>1, <4>2
      <4>4. ~ Hc!Run(g, L + 1, n, x)
        BY <1>1, <4>3 DEF Hc!Run
      <4> QED BY <2>2, <4>4
    <3>2. CASE ~(s < L /\ L + 1 >= n)
      BY <1>1, <1>2, <2>2, <3>2 DEF Hc!Run
    <3> QED BY <3>1, <3>2
  <2>3. CASE x # r
    BY <1>1, <2>3 DEF Hc!Run
  <2> QED BY <1>2, <2>1, <2>2, <2>3
<1>6. Hc!Turns(h, n, x) = {i \in 1 .. L : Hc!Run(h, i, n, x)}
      /\ Hc!Turns(g, n, x) = {i \in 1 .. L + 1 : Hc!Run(g, i, n, x)}
  BY <1>1 DEF Hc!Turns, L
<1>7. Hc!Turns(g, n, x) = IF x = r /\ s + 1 >= n THEN Hc!Turns(h, n, x) \cup {L + 1}
                          ELSE Hc!Turns(h, n, x)
  <2>1. 1 .. L + 1 = (1 .. L) \cup {L + 1}
    BY <1>1
  <2>2. Hc!Turns(g, n, x) = {i \in 1 .. L : Hc!Run(h, i, n, x)}
                            \cup {i \in {L + 1} : x = r /\ s + 1 >= n}
    BY <1>4, <1>5, <1>6, <2>1
  <2> QED BY <1>6, <2>2
<1> QED BY <1>3, <1>6, <1>7 DEF g, L

\* Counting a result keeps status and counters in step with the history.
LEMMA CountKeeps ==
    ASSUME NEW h \in Seq({"healthy", "unhealthy"}), NEW r \in {"healthy", "unhealthy"},
           NEW s \in [status : Hc!Statuses, failures : Nat, successes : Nat],
           s.status = Hc!Verdict(h),
           Hc!EndsWith(h, s.successes, "healthy"), Hc!EndsWith(h, s.failures, "unhealthy")
    PROVE  LET t == Hc!update_state(s, r)
               g == Append(h, r)
           IN  /\ t \in [status : Hc!Statuses, failures : Nat, successes : Nat]
               /\ t.status = Hc!Verdict(g)
               /\ Hc!EndsWith(g, t.successes, "healthy")
               /\ Hc!EndsWith(g, t.failures, "unhealthy")
<1> DEFINE t == Hc!update_state(s, r)
           g == Append(h, r)
           n == success_threshold
           m == failure_threshold
           good(k) == Hc!Turns(k, n, "healthy")
           bad(k) == Hc!Turns(k, m, "unhealthy")
<1>1. n \in Nat /\ m \in Nat /\ s.successes \in Nat /\ s.failures \in Nat
  BY ControlPlaneAssumption
<1>0. ASSUME NEW x \in {"healthy", "unhealthy"}, NEW k \in Nat, NEW c \in Nat, Hc!EndsWith(h, c, x)
      PROVE  /\ Hc!EndsWith(g, IF x = r THEN c + 1 ELSE 0, x)
             /\ Hc!Turns(h, k, x) \subseteq 1 .. Len(h)
             /\ Hc!Turns(g, k, x) = IF x = r /\ c + 1 >= k THEN Hc!Turns(h, k, x) \cup {Len(h) + 1}
                                    ELSE Hc!Turns(h, k, x)
  BY <1>0, OneMore
<1>2. /\ Hc!EndsWith(g, IF "healthy" = r THEN s.successes + 1 ELSE 0, "healthy")
      /\ good(h) \subseteq 1 .. Len(h)
      /\ good(g) = IF "healthy" = r /\ s.successes + 1 >= n THEN good(h) \cup {Len(h) + 1}
                   ELSE good(h)
  BY <1>1, <1>0
<1>3. /\ Hc!EndsWith(g, IF "unhealthy" = r THEN s.failures + 1 ELSE 0, "unhealthy")
      /\ bad(h) \subseteq 1 .. Len(h)
      /\ bad(g) = IF "unhealthy" = r /\ s.failures + 1 >= m THEN bad(h) \cup {Len(h) + 1}
                  ELSE bad(h)
  BY <1>1, <1>0
<1>4. /\ Hc!Verdict(h) = CASE \E i \in good(h) : \A j \in bad(h) : j < i -> "healthy"
                           [] \E i \in bad(h) : \A j \in good(h) : j < i -> "unhealthy"
                           [] OTHER -> "unknown"
      /\ Hc!Verdict(g) = CASE \E i \in good(g) : \A j \in bad(g) : j < i -> "healthy"
                           [] \E i \in bad(g) : \A j \in good(g) : j < i -> "unhealthy"
                           [] OTHER -> "unknown"
  BY DEF Hc!Verdict
<1>5. Len(h) \in Nat
  OBVIOUS
<1> HIDE DEF n, m, good, bad, g
<1>6. CASE r = "healthy"
  <2>1. t = [successes |-> s.successes + 1, failures |-> 0,
             status |-> IF s.successes + 1 >= n THEN "healthy" ELSE s.status]
    BY <1>6 DEF Hc!update_state, n
  <2>2. t.status = Hc!Verdict(g)
    <3>1. CASE s.successes + 1 >= n
      <4>1. /\ Len(h) + 1 \in good(g) /\ \A j \in bad(g) : j < Len(h) + 1
            /\ \A i \in bad(g) : ~(Len(h) + 1 < i)
        BY <1>2, <1>3, <1>5, <1>6, <3>1
      <4>4. ~ \E i \in bad(g) : \A j \in good(g) : j < i
        BY <4>1
      <4>2. Hc!Verdict(g) = "healthy"
        BY <1>4, <4>1, <4>4
      <4>3. t.status = "healthy"
        BY <2>1, <3>1
      <4> QED BY <4>2, <4>3
    <3>2. CASE ~(s.successes + 1 >= n)
      BY <1>2, <1>3, <1>4, <1>6, <2>1, <3>2
    <3> QED BY <3>1, <3>2
  <2>3. t \in [status : Hc!Statuses, failures : Nat, successes : Nat]
    BY <1>1, <2>1 DEF Hc!Statuses
  <2> HIDE DEF t
  <2> QED BY <1>2, <1>3, <1>6, <2>1, <2>2, <2>3 DEF t, g
<1>7. CASE r = "unhealthy"
  <2>1. t = [failures |-> s.failures + 1, successes |-> 0,
             status |-> IF s.failures + 1 >= m THEN "unhealthy" ELSE s.status]
    BY <1>7 DEF Hc!update_state, m
  <2>2. t.status = Hc!Verdict(g)
    <3>1. CASE s.failures + 1 >= m
      <4>1. /\ Len(h) + 1 \in bad(g) /\ \A j \in good(g) : j < Len(h) + 1
            /\ \A i \in good(g) : ~(Len(h) + 1 < i)
        BY <1>2, <1>3, <1>5, <1>7, <3>1
      <4>2. ~ \E i \in good(g) : \A j \in bad(g) : j < i
        BY <4>1
      <4> QED BY <1>4, <2>1, <3>1, <4>1, <4>2
    <3>2. CASE ~(s.failures + 1 >= m)
      BY <1>2, <1>3, <1>4, <1>7, <2>1, <3>2
    <3> QED BY <3>1, <3>2
  <2>3. t \in [status : Hc!Statuses, failures : Nat, successes : Nat]
    BY <1>1, <2>1 DEF Hc!Statuses
  <2> HIDE DEF t
  <2> QED BY <1>2, <1>3, <1>7, <2>1, <2>2, <2>3 DEF t, g
<1> QED BY <1>6, <1>7

\* The status of a target is what the history of its results says, however
\* checks of it overlap and whenever it is registered again.
THEOREM StatusRight == CPSpec => []StatusIsHysteresis
<1> DEFINE R == {"healthy", "unhealthy"}
<1>1. Hc!Init => Hc!HealthInv
  <2>1. <<>> \in Seq(R)
    OBVIOUS
  <2> QED BY <2>1 DEF Hc!Init, Hc!HealthInv, Hc!StatusIsHysteresis
<1>2. Hc!HealthInv /\ [Hc!Next]_Hc!healthVars => Hc!HealthInv'
  <2> SUFFICES ASSUME Hc!HealthInv, [Hc!Next]_Hc!healthVars PROVE Hc!HealthInv'
    OBVIOUS
  <2>1. CASE UNCHANGED <<targets, former, counted>>
    BY <2>1 DEF Hc!HealthInv, Hc!StatusIsHysteresis
  <2>2. CASE Hc!register_target
    <3>1. PICK t \in Hc!Fresh :
            /\ targets' = [x \in DOMAIN targets \cup {t} |->
                 IF x = t THEN [status |-> "unknown", failures |-> 0, successes |-> 0]
                 ELSE targets[x]]
            /\ former' = former \cup {t}
            /\ UNCHANGED <<probe, counted>>
      BY <2>2 DEF Hc!register_target
    <3>2. t \in HealthTargets \ former
      BY DEF Hc!Fresh
    <3>3. counted[t] = <<>> /\ t \notin DOMAIN targets
      BY <3>2 DEF Hc!HealthInv
    <3>4. Hc!Verdict(<<>>) = "unknown" /\ Hc!EndsWith(<<>>, 0, "healthy")
          /\ Hc!EndsWith(<<>>, 0, "unhealthy")
      BY DEF Hc!Verdict, Hc!Turns, Hc!EndsWith
    <3> QED BY <3>1, <3>2, <3>3, <3>4 DEF Hc!HealthInv, Hc!StatusIsHysteresis, Hc!Statuses
  <2>3. CASE Hc!deregister_target
    BY <2>3 DEF Hc!deregister_target, Hc!HealthInv, Hc!StatusIsHysteresis
  <2>4. ASSUME NEW c \in Clients, Hc!CheckDone(c), ~UNCHANGED <<targets, former, counted>>
        PROVE  Hc!HealthInv'
    <3>1. PICK t \in DOMAIN targets, r \in Hc!perform_check :
            /\ targets' = [targets EXCEPT ![t] = Hc!update_state(@, r)]
            /\ counted' = [counted EXCEPT ![t] = Append(@, r)]
            /\ former' = former
      BY <2>4 DEF Hc!CheckDone
    <3>2. r \in R
      BY DEF Hc!perform_check, Hc!check_http, Hc!check_tcp, Hc!check_exec, Hc!check_grpc
    <3>3. /\ t \in HealthTargets /\ t \in former /\ counted[t] \in Seq(R)
          /\ targets[t] \in [status : Hc!Statuses, failures : Nat, successes : Nat]
          /\ targets[t].status = Hc!Verdict(counted[t])
          /\ Hc!EndsWith(counted[t], targets[t].successes, "healthy")
          /\ Hc!EndsWith(counted[t], targets[t].failures, "unhealthy")
      BY DEF Hc!HealthInv, Hc!StatusIsHysteresis
    <3>4. /\ counted'[t] = Append(counted[t], r) /\ targets'[t] = Hc!update_state(targets[t], r)
          /\ DOMAIN targets' = DOMAIN targets
          /\ \A x \in DOMAIN targets \ {t} : targets'[x] = targets[x]
          /\ \A x \in HealthTargets \ {t} : counted'[x] = counted[x]
      BY <3>1, <3>3 DEF Hc!HealthInv
    <3>5. counted' \in [HealthTargets -> Seq(R)]
      <4>1. Append(counted[t], r) \in Seq(R)
        BY <3>2, <3>3
      <4> QED BY <3>1, <4>1 DEF Hc!HealthInv
    <3> HIDE DEF R
    <3>6. /\ targets'[t] \in [status : Hc!Statuses, failures : Nat, successes : Nat]
          /\ targets'[t].status = Hc!Verdict(counted'[t])
          /\ Hc!EndsWith(counted'[t], targets'[t].successes, "healthy")
          /\ Hc!EndsWith(counted'[t], targets'[t].failures, "unhealthy")
      <4>1. R = {"healthy", "unhealthy"}
        BY DEF R
      <4>2. /\ Hc!update_state(targets[t], r) \in [status : Hc!Statuses, failures : Nat, successes : Nat]
            /\ Hc!update_state(targets[t], r).status = Hc!Verdict(Append(counted[t], r))
            /\ Hc!EndsWith(Append(counted[t], r), Hc!update_state(targets[t], r).successes, "healthy")
            /\ Hc!EndsWith(Append(counted[t], r), Hc!update_state(targets[t], r).failures, "unhealthy")
        <5>1. counted[t] \in Seq({"healthy", "unhealthy"}) /\ r \in {"healthy", "unhealthy"}
          BY <3>2, <3>3, <4>1
        <5> QED BY <3>3, <5>1, CountKeeps
      <4> QED BY <3>4, <4>2
    <3>7. DOMAIN targets \subseteq HealthTargets
      BY DEF Hc!HealthInv
    <3>8. \A x \in DOMAIN targets' :
            /\ targets'[x] \in [status : Hc!Statuses, failures : Nat, successes : Nat]
            /\ targets'[x].status = Hc!Verdict(counted'[x])
            /\ Hc!EndsWith(counted'[x], targets'[x].successes, "healthy")
            /\ Hc!EndsWith(counted'[x], targets'[x].failures, "unhealthy")
      <4>1. \A x \in DOMAIN targets \ {t} :
            /\ targets'[x] = targets[x] /\ counted'[x] = counted[x]
        BY <3>4, <3>7
      <4> QED BY <3>4, <3>6, <4>1 DEF Hc!HealthInv, Hc!StatusIsHysteresis
    <3>9. \A x \in HealthTargets \ former : counted'[x] = <<>>
      BY <3>3, <3>4 DEF Hc!HealthInv
    <3> QED BY <3>1, <3>4, <3>5, <3>8, <3>9 DEF Hc!HealthInv, Hc!StatusIsHysteresis, R
  <2> QED BY <2>1, <2>2, <2>3, <2>4 DEF Hc!Next, Hc!healthVars, Hc!CheckTarget, Hc!CheckAll,
         Hc!CheckNext
<1>3. Hc!HealthInv => StatusIsHysteresis
  BY DEF Hc!HealthInv, StatusIsHysteresis
<1> QED BY Starts, Steps, <1>1, <1>2, <1>3, PTL DEF CPSpec

-----------------------------------------------------------------------------
\* What the three maps hold of an id that a step leaves alone.
OpsAlone(id) ==
    /\ \A e \in Ops!Engines :
         /\ <<e, id>> \in DOMAIN running' <=> <<e, id>> \in DOMAIN running
         /\ <<e, id>> \in kept' <=> <<e, id>> \in kept
    /\ id \in DOMAIN instances' <=> id \in DOMAIN instances
    /\ id \in DOMAIN instances => instances'[id] = instances[id]

OpsAgree(id) ==
    \A e \in Ops!Engines :
        /\ <<e, id>> \in DOMAIN running <=> id \in DOMAIN instances /\ instances[id] = e
        /\ <<e, id>> \in kept => <<e, id>> \in DOMAIN running

LEMMA AloneReached ==
    ASSUME NEW id, OpsAlone(id)
    PROVE  /\ \A do, e : Ops!Reached(id, do, e)' <=> Ops!Reached(id, do, e)
           /\ OpsAgree(id)' <=> OpsAgree(id)
<1>1. Ops!Held(id)' = Ops!Held(id)
  BY DEF Ops!Held, OpsAlone
<1>2. Ops!Saved(id)' = Ops!Saved(id)
  BY DEF Ops!Saved, OpsAlone
<1>3. Ops!Known(id)' = Ops!Known(id)
  BY DEF Ops!Known, OpsAlone
<1>4. \A do, e : Ops!Reached(id, do, e)' <=> Ops!Reached(id, do, e)
  BY <1>1, <1>2, <1>3, Zenon DEF Ops!Reached
<1>5. OpsAgree(id)' <=> OpsAgree(id)
  BY DEF OpsAgree, OpsAlone
<1> QED BY <1>4, <1>5

LEMMA OpsCalls ==
    ASSUME Ops!OperatorsInv, NEW c \in Clients
    PROVE  /\ Ops!Idle(c) <=> op[c] = Ops!NoOp
           /\ ~Ops!Idle(c) => /\ op[c] \in Ops!Call
                              /\ op[c].id \in InstanceIds /\ op[c].engine \in Ops!Engines
<1>1. op[c] \in {Ops!NoOp} \cup Ops!Call
  BY DEF Ops!OperatorsInv, Ops!Call
<1>2. ASSUME NEW x \in Ops!Call PROVE x.do # "none" /\ x # Ops!NoOp
  <2>1. Ops!NoOp.do = "none"
    BY DEF Ops!NoOp
  <2> QED BY <2>1 DEF Ops!Call
<1>3. Ops!NoOp.do = "none"
  BY DEF Ops!NoOp
<1>4. \A x \in Ops!Call : x.id \in InstanceIds /\ x.engine \in Ops!Engines
  BY DEF Ops!Call
<1> QED BY <1>1, <1>2, <1>3, <1>4 DEF Ops!Idle

\* A call begins: on an id that no call is on and no other engine has, or it
\* is contested from then on.
LEMMA CallBegins ==
    ASSUME Ops!OperatorsInv, NEW c \in Clients, Ops!Idle(c),
           NEW do \in {"store", "final", "remove", "push", "scale"},
           NEW e \in Ops!Engines, NEW id \in InstanceIds, NEW r \in Requests \cup {Ops!NoRequest},
           Ops!Begin(c, do, e, id, r), UNCHANGED <<instances, running, kept>>,
           do # "store" <=> <<e, id>> \in DOMAIN running
    PROVE  Ops!OperatorsInv'
<1> DEFINE new == [do |-> do, engine |-> e, id |-> id, req |-> r]
<1>1. new \in Ops!Call /\ new.do = do /\ new.engine = e /\ new.id = id /\ new.do # "none"
  BY DEF Ops!Call
<1>2. op = [d \in Clients |-> op[d]]
  BY DEF Ops!OperatorsInv
<1> HIDE DEF new
<1>3. op' = [op EXCEPT ![c] = new]
  BY DEF Ops!Begin, new
<1>4. /\ op'[c] = new /\ \A d \in Clients \ {c} : op'[d] = op[d]
      /\ op' = [d \in Clients |-> op'[d]]
  BY <1>2, <1>3
<1>5. \A x \in InstanceIds : /\ x # id => Ops!Busy(x)' = Ops!Busy(x)
                             /\ Ops!Busy(id)' = Ops!Busy(id) \cup {c}
  BY <1>1, <1>4 DEF Ops!Busy, Ops!Idle
<1>6. ASSUME NEW x \in InstanceIds, x \notin contested'
      PROVE  /\ \A p, q \in Ops!Busy(x)' : p = q
             /\ \A p \in Ops!Busy(x)' : Ops!Reached(x, op[p].do, op[p].engine)'
             /\ Ops!Busy(x)' = {} => OpsAgree(x)'
  <2>1. x \notin contested
    BY <1>6 DEF Ops!Begin
  <2>2. /\ \A p, q \in Ops!Busy(x) : p = q
        /\ \A p \in Ops!Busy(x) : Ops!Reached(x, op[p].do, op[p].engine)
        /\ Ops!Busy(x) = {} => OpsAgree(x)
    BY <2>1 DEF Ops!OperatorsInv, Ops!TrackedAtRest, OpsAgree
  <2>3. /\ \A f, g : Ops!Reached(x, f, g)' <=> Ops!Reached(x, f, g)
        /\ OpsAgree(x)' <=> OpsAgree(x)
    <3>1. OpsAlone(x)
      BY DEF OpsAlone
    <3> QED BY <3>1, AloneReached
  <2>4. CASE x # id
    <3>1. \A p \in Ops!Busy(x) : p # c /\ p \in Clients
      BY DEF Ops!Busy, Ops!Idle
    <3> QED BY <1>4, <1>5, <2>2, <2>3, <2>4, <3>1
  <2>5. CASE x = id
    <3>1. Ops!Busy(id) = {} /\ ~ \E k \in DOMAIN running : k[2] = id /\ k[1] # e
      <4>1. id \notin contested' /\ id \notin contested
        BY <1>6, <2>1, <2>5
      <4>2. ~ (Ops!Busy(id) # {} \/ \E k \in DOMAIN running : k[2] = id /\ k[1] # e)
        BY <4>1 DEF Ops!Begin
      <4> QED BY <4>2, Zenon
    <3>2. OpsAgree(id)
      BY <2>2, <2>5, <3>1
    <3>3. \A f \in Ops!Engines : <<f, id>> \in DOMAIN running => f = e
      BY <3>1
    <3>4. id \in DOMAIN instances => instances[id] \in Ops!Engines
      BY DEF Ops!OperatorsInv
    <3>5. CASE do = "store"
      <4>1. Ops!Held(id) = {} /\ Ops!Known(id) = {} /\ Ops!Saved(id) = {}
        BY <3>2, <3>3, <3>4, <3>5 DEF Ops!Held, Ops!Known, Ops!Saved, OpsAgree
      <4>2. Ops!Reached(id, do, e)
        BY <3>5, <4>1 DEF Ops!Reached
      <4> QED BY <1>1, <1>4, <1>5, <2>3, <2>5, <3>1, <4>2
    <3>6. CASE do # "store"
      <4>1. Ops!Held(id) = {e} /\ Ops!Known(id) = {e} /\ Ops!Saved(id) \subseteq {e}
        BY <3>2, <3>3, <3>4, <3>6 DEF Ops!Held, Ops!Known, Ops!Saved, OpsAgree
      <4>2. Ops!Reached(id, do, e)
        BY <3>6, <4>1 DEF Ops!Reached
      <4> QED BY <1>1, <1>4, <1>5, <2>3, <2>5, <3>1, <4>2
    <3> QED BY <3>5, <3>6
  <2> QED BY <2>4, <2>5
<1>7. \A d \in Clients : op'[d] \in {Ops!NoOp} \cup Ops!Call
  BY <1>1, <1>4 DEF Ops!OperatorsInv, Ops!Call
<1>8. Ops!TrackedAtRest'
  BY <1>6 DEF Ops!TrackedAtRest, OpsAgree
<1> QED BY <1>4, <1>6, <1>7, <1>8 DEF Ops!OperatorsInv, Ops!Call

\* A call goes on or ends: it changes what the maps hold of its own id, as
\* its next step expects, or as they are at rest.
LEMMA GoesOn ==
    ASSUME Ops!OperatorsInv, NEW c \in Clients, ~Ops!Idle(c), NEW i, i = op[c].id, contested' = contested,
           NEW next \in {Ops!NoOp} \cup Ops!Call, op' = [op EXCEPT ![c] = next],
           next # Ops!NoOp => next.id = i,
           \A id \in InstanceIds \ {i} : OpsAlone(id),
           DOMAIN running' \subseteq Ops!Engines \X InstanceIds,
           \A id \in DOMAIN instances' : instances'[id] \in Ops!Engines,
           i \notin contested =>
             /\ next # Ops!NoOp => Ops!Reached(i, next.do, next.engine)'
             /\ next = Ops!NoOp => OpsAgree(i)'
    PROVE  Ops!OperatorsInv'
<1>1. op = [d \in Clients |-> op[d]]
  BY DEF Ops!OperatorsInv
<1>2. /\ op'[c] = next /\ \A d \in Clients \ {c} : op'[d] = op[d]
      /\ op' = [d \in Clients |-> op'[d]]
  BY <1>1
<1>3. i \in InstanceIds
  BY OpsCalls
<1>4. /\ next # Ops!NoOp => next.do # "none"
      /\ Ops!NoOp.do = "none"
  BY DEF Ops!Call, Ops!NoOp
<1>5. c \in Ops!Busy(i)
  BY DEF Ops!Busy
<1>6. ASSUME NEW x \in InstanceIds \ contested
      PROVE  /\ \A p, q \in Ops!Busy(x)' : p = q
             /\ \A p \in Ops!Busy(x)' : Ops!Reached(x, op[p].do, op[p].engine)'
             /\ Ops!Busy(x)' = {} => OpsAgree(x)'
  <2>1. /\ \A p, q \in Ops!Busy(x) : p = q
        /\ \A p \in Ops!Busy(x) : Ops!Reached(x, op[p].do, op[p].engine)
        /\ Ops!Busy(x) = {} => OpsAgree(x)
    BY DEF Ops!OperatorsInv, Ops!TrackedAtRest, OpsAgree
  <2>2. CASE x # i
    <3>1. Ops!Busy(x)' = Ops!Busy(x) /\ c \notin Ops!Busy(x)
      BY <1>2, <1>4, <2>2 DEF Ops!Busy, Ops!Idle
    <3>2. /\ \A f, g : Ops!Reached(x, f, g)' <=> Ops!Reached(x, f, g)
          /\ OpsAgree(x)' <=> OpsAgree(x)
      BY <2>2, AloneReached
    <3>3. \A p \in Ops!Busy(x) : p \in Clients /\ op'[p] = op[p]
      BY <1>2, <3>1 DEF Ops!Busy
    <3> QED BY <2>1, <3>1, <3>2, <3>3
  <2>3. CASE x = i /\ next # Ops!NoOp
    <3>1. Ops!Busy(x)' = {c}
      BY <1>2, <1>4, <1>5, <2>1, <2>3 DEF Ops!Busy, Ops!Idle
    <3> QED BY <1>2, <2>3, <3>1
  <2>4. CASE x = i /\ next = Ops!NoOp
    <3>1. Ops!Busy(x)' = {}
      BY <1>2, <1>4, <1>5, <2>1, <2>4 DEF Ops!Busy, Ops!Idle
    <3> QED BY <2>4, <3>1
  <2> QED BY <2>2, <2>3, <2>4
<1>7. \A d \in Clients : op'[d] \in {Ops!NoOp} \cup Ops!Call
  BY <1>2 DEF Ops!OperatorsInv, Ops!Call
<1>8. Ops!TrackedAtRest'
  BY <1>6 DEF Ops!TrackedAtRest, OpsAgree
<1> QED BY <1>2, <1>6, <1>7, <1>8 DEF Ops!OperatorsInv, Ops!Call

\* One entry more, or less, in the maps: what it means at its id and elsewhere.
LEMMA MapsMove ==
    ASSUME NEW i \in InstanceIds, NEW e \in Ops!Engines,
           \/ UNCHANGED running \/ (\E v : running' = Ops!Set(running, <<e, i>>, v))
           \/ running' = Ops!Unset(running, <<e, i>>),
           \/ UNCHANGED kept \/ kept' = kept \cup {<<e, i>>} \/ kept' = kept \ {<<e, i>>},
           \/ UNCHANGED instances \/ instances' = Ops!Set(instances, i, e)
           \/ instances' = Ops!untrack(i),
           Ops!OperatorsInv
    PROVE  /\ \A id \in InstanceIds \ {i} : OpsAlone(id)
           /\ DOMAIN running' \subseteq Ops!Engines \X InstanceIds
           /\ \A id \in DOMAIN instances' : instances'[id] \in Ops!Engines
           /\ UNCHANGED running => Ops!Held(i)' = Ops!Held(i)
           /\ (\E v : running' = Ops!Set(running, <<e, i>>, v)) => Ops!Held(i)' = Ops!Held(i) \cup {e}
           /\ running' = Ops!Unset(running, <<e, i>>) => Ops!Held(i)' = Ops!Held(i) \ {e}
           /\ UNCHANGED kept => Ops!Saved(i)' = Ops!Saved(i)
           /\ kept' = kept \cup {<<e, i>>} => Ops!Saved(i)' = Ops!Saved(i) \cup {e}
           /\ kept' = kept \ {<<e, i>>} => Ops!Saved(i)' = Ops!Saved(i) \ {e}
           /\ UNCHANGED instances => Ops!Known(i)' = Ops!Known(i)
           /\ instances' = Ops!Set(instances, i, e) => Ops!Known(i)' = {e}
           /\ instances' = Ops!untrack(i) => Ops!Known(i)' = {}
<1>1. /\ DOMAIN running \subseteq Ops!Engines \X InstanceIds
      /\ \A id \in DOMAIN instances : instances[id] \in Ops!Engines
  BY DEF Ops!OperatorsInv
<1>2. \/ DOMAIN running' = DOMAIN running
      \/ DOMAIN running' = DOMAIN running \cup {<<e, i>>}
      \/ DOMAIN running' = DOMAIN running \ {<<e, i>>}
  BY DEF Ops!Set, Ops!Unset
<1>3. /\ \A id \in DOMAIN instances \ {i} : id \in DOMAIN instances' /\ instances'[id] = instances[id]
      /\ DOMAIN instances' \subseteq DOMAIN instances \cup {i}
      /\ i \in DOMAIN instances' => instances'[i] \in {instances[i], e}
      /\ i \in DOMAIN instances' /\ i \notin DOMAIN instances => instances'[i] = e
  BY DEF Ops!Set, Ops!Unset, Ops!untrack
<1>4. \A id \in InstanceIds \ {i} : OpsAlone(id)
  BY <1>2, <1>3 DEF OpsAlone
<1>5. /\ UNCHANGED running => Ops!Held(i)' = Ops!Held(i)
      /\ (\E v : running' = Ops!Set(running, <<e, i>>, v)) => Ops!Held(i)' = Ops!Held(i) \cup {e}
      /\ running' = Ops!Unset(running, <<e, i>>) => Ops!Held(i)' = Ops!Held(i) \ {e}
  BY DEF Ops!Held, Ops!Set, Ops!Unset
<1>6. /\ UNCHANGED kept => Ops!Saved(i)' = Ops!Saved(i)
      /\ kept' = kept \cup {<<e, i>>} => Ops!Saved(i)' = Ops!Saved(i) \cup {e}
      /\ kept' = kept \ {<<e, i>>} => Ops!Saved(i)' = Ops!Saved(i) \ {e}
  BY DEF Ops!Saved
<1>7. /\ UNCHANGED instances => Ops!Known(i)' = Ops!Known(i)
      /\ instances' = Ops!Set(instances, i, e) => Ops!Known(i)' = {e}
      /\ instances' = Ops!untrack(i) => Ops!Known(i)' = {}
  BY DEF Ops!Known, Ops!Set, Ops!Unset, Ops!untrack
<1>8. /\ DOMAIN running' \subseteq Ops!Engines \X InstanceIds
      /\ \A id \in DOMAIN instances' : instances'[id] \in Ops!Engines
  BY <1>1, <1>2, <1>3
<1> QED BY <1>4, <1>5, <1>6, <1>7, <1>8

\* Every step of a call but its first.
LEMMA CallKeeps ==
    ASSUME Ops!OperatorsInv, NEW c \in Clients,
           \/ Ops!Store(c) \/ Ops!Track(c) \/ Ops!FinalBackup(c) \/ Ops!Purge(c) \/ Ops!Untrack(c)
           \/ Ops!deprovision_postgres(c) \/ Ops!deprovision_mysql(c) \/ Ops!deprovision_redis(c)
           \/ Ops!Push(c) \/ Ops!ScaleStore(c)
    PROVE  Ops!OperatorsInv'
<1>1. /\ ~Ops!Idle(c) /\ contested' = contested
  BY DEF Ops!Store, Ops!Track, Ops!FinalBackup, Ops!Purge, Ops!Untrack, Ops!Remove,
     Ops!deprovision_postgres, Ops!deprovision_mysql, Ops!deprovision_redis, Ops!Push,
     Ops!ScaleStore, Ops!Idle
<1>2. PICK i \in InstanceIds, e \in Ops!Engines : i = op[c].id /\ e = op[c].engine
  BY <1>1, OpsCalls
<1>3. PICK do : do = op[c].do
  OBVIOUS
<1>4. i \notin contested => Ops!Reached(i, do, e)
  <2>1. c \in Ops!Busy(i)
    BY <1>1, <1>2 DEF Ops!Busy
  <2> QED BY <1>2, <1>3, <2>1 DEF Ops!OperatorsInv
<1>5. \A d \in {"track", "last", "remove", "purge", "untrack"} :
        LET next == [op[c] EXCEPT !.do = d]
        IN  /\ next \in Ops!Call /\ next.id = i /\ next.engine = e /\ next.do = d
            /\ next # Ops!NoOp
  <2>1. op[c] \in Ops!Call
    BY <1>1, OpsCalls
  <2>2. Ops!NoOp.do = "none"
    BY DEF Ops!NoOp
  <2>3. ASSUME NEW d \in {"track", "last", "remove", "purge", "untrack"}
        PROVE  LET next == [op[c] EXCEPT !.do = d]
               IN  next \in Ops!Call /\ next.id = i /\ next.engine = e /\ next.do = d
    BY <1>2, <2>1 DEF Ops!Call
  <2>4. ASSUME NEW d \in {"track", "last", "remove", "purge", "untrack"}
        PROVE  [op[c] EXCEPT !.do = d] # Ops!NoOp
    <3>1. d # "none"
      OBVIOUS
    <3> QED BY <2>2, <2>3, <3>1
  <2> QED BY <2>3, <2>4
\* The step to another step of the call.
<1>6. ASSUME NEW d \in {"track", "last", "remove", "purge", "untrack"}, Ops!Continue(c, d),
             \A id \in InstanceIds \ {i} : OpsAlone(id),
             DOMAIN running' \subseteq Ops!Engines \X InstanceIds,
             \A id \in DOMAIN instances' : instances'[id] \in Ops!Engines,
             i \notin contested => Ops!Reached(i, d, e)'
      PROVE  Ops!OperatorsInv'
  <2>1. PICK next \in Ops!Call :
          /\ op' = [op EXCEPT ![c] = next] /\ next.id = i /\ next.engine = e /\ next.do = d
          /\ next # Ops!NoOp
    <3>1. op' = [op EXCEPT ![c] = [op[c] EXCEPT !.do = d]]
      BY <1>6 DEF Ops!Continue
    <3> QED BY <1>5, <3>1
  <2> QED BY <1>1, <1>2, <1>6, <2>1, GoesOn
\* The last step of the call.
<1>7. ASSUME Ops!End(c),
             \A id \in InstanceIds \ {i} : OpsAlone(id),
             DOMAIN running' \subseteq Ops!Engines \X InstanceIds,
             \A id \in DOMAIN instances' : instances'[id] \in Ops!Engines,
             i \notin contested => Ops!Held(i)' = Ops!Known(i)' /\ Ops!Saved(i)' \subseteq Ops!Held(i)'
      PROVE  Ops!OperatorsInv'
  <2>1. op' = [op EXCEPT ![c] = Ops!NoOp]
    BY <1>7 DEF Ops!End
  <2>2. i \notin contested => OpsAgree(i)'
    BY <1>7 DEF Ops!Held, Ops!Known, Ops!Saved, OpsAgree
  <2> QED BY <1>1, <1>2, <1>7, <2>1, <2>2, GoesOn
<1>10. CASE Ops!Store(c)
  <2>1. /\ do = "store" /\ Ops!Continue(c, "track") /\ UNCHANGED <<instances, kept>>
        /\ \E v : running' = Ops!Set(running, <<e, i>>, v)
    BY <1>2, <1>3, <1>10 DEF Ops!Store
  <2>2. i \notin contested => Ops!Reached(i, "track", e)'
    BY <1>4, <2>1, MapsMove DEF Ops!Reached
  <2> QED BY <1>6, <2>1, <2>2, MapsMove
<1>11. CASE Ops!Track(c)
  <2>1. /\ do = "track" /\ Ops!End(c) /\ UNCHANGED <<running, kept>>
        /\ instances' = Ops!Set(instances, i, e)
    BY <1>2, <1>3, <1>11 DEF Ops!Track
  <2>3. Ops!Held(i)' = Ops!Held(i) /\ Ops!Saved(i)' = Ops!Saved(i) /\ Ops!Known(i)' = {e}
    BY <2>1, MapsMove
  <2>2. i \notin contested => Ops!Held(i)' = Ops!Known(i)' /\ Ops!Saved(i)' \subseteq Ops!Held(i)'
    BY <1>4, <2>1, <2>3 DEF Ops!Reached
  <2> QED BY <1>7, <2>1, <2>2, MapsMove
<1>12. CASE Ops!FinalBackup(c)
  <2>1. /\ do = "final" /\ (Ops!Continue(c, "last") \/ Ops!Continue(c, "remove"))
        /\ UNCHANGED <<instances, running, kept>>
    BY <1>2, <1>3, <1>12 DEF Ops!FinalBackup
  <2>2. i \notin contested => Ops!Reached(i, "last", e)' /\ Ops!Reached(i, "remove", e)'
    BY <1>4, <2>1, MapsMove DEF Ops!Reached
  <2> QED BY <1>6, <2>1, <2>2, MapsMove
<1>13. CASE Ops!Remove(c, e)
  <2>1. /\ do = "remove" /\ Ops!Continue(c, "purge") /\ UNCHANGED <<instances, kept>>
        /\ running' = Ops!Unset(running, <<e, i>>)
    BY <1>2, <1>3, <1>13 DEF Ops!Remove
  <2>2. i \notin contested => Ops!Reached(i, "purge", e)'
    BY <1>4, <2>1, MapsMove DEF Ops!Reached
  <2> QED BY <1>6, <2>1, <2>2, MapsMove
<1>14. CASE Ops!Purge(c)
  <2>1. /\ do = "purge" /\ Ops!Continue(c, "untrack") /\ UNCHANGED <<instances, running>>
        /\ kept' = kept \ {<<e, i>>}
    BY <1>2, <1>3, <1>14 DEF Ops!Purge
  <2>2. i \notin contested => Ops!Reached(i, "untrack", e)'
    BY <1>4, <2>1, MapsMove DEF Ops!Reached
  <2> QED BY <1>6, <2>1, <2>2, MapsMove
<1>15. CASE Ops!Untrack(c)
  <2>1. /\ do = "untrack" /\ Ops!End(c) /\ UNCHANGED <<running, kept>>
        /\ instances' = Ops!untrack(i)
    BY <1>2, <1>3, <1>15 DEF Ops!Untrack
  <2>3. Ops!Held(i)' = Ops!Held(i) /\ Ops!Saved(i)' = Ops!Saved(i) /\ Ops!Known(i)' = {}
    BY <2>1, MapsMove
  <2>2. i \notin contested => Ops!Held(i)' = Ops!Known(i)' /\ Ops!Saved(i)' \subseteq Ops!Held(i)'
    BY <1>4, <2>1, <2>3 DEF Ops!Reached
  <2> QED BY <1>7, <2>1, <2>2, MapsMove
<1>16. CASE Ops!Push(c)
  <2>1. /\ \/ do = "last" /\ Ops!Continue(c, "remove")
           \/ do = "push" /\ Ops!End(c)
        /\ UNCHANGED <<instances, running>> /\ kept' = kept \cup {<<e, i>>}
    BY <1>2, <1>3, <1>16 DEF Ops!Push
  <2>3. /\ Ops!Held(i)' = Ops!Held(i) /\ Ops!Saved(i)' = Ops!Saved(i) \cup {e}
        /\ Ops!Known(i)' = Ops!Known(i)
    BY <2>1, MapsMove
  <2>2. i \notin contested =>
          /\ Ops!Held(i)' = Ops!Known(i)' /\ Ops!Saved(i)' \subseteq Ops!Held(i)'
          /\ Ops!Reached(i, "remove", e)'
    BY <1>4, <2>1, <2>3 DEF Ops!Reached
  <2> QED BY <1>6, <1>7, <2>1, <2>2, MapsMove
<1>17. CASE Ops!ScaleStore(c)
  <2>1. /\ do = "scale" /\ Ops!End(c) /\ UNCHANGED <<instances, kept>>
        /\ DOMAIN running' = DOMAIN running
    BY <1>2, <1>3, <1>17 DEF Ops!ScaleStore
  <2>2. Ops!Held(i)' = Ops!Held(i) /\ Ops!Known(i)' = Ops!Known(i) /\ Ops!Saved(i)' = Ops!Saved(i)
    BY <2>1 DEF Ops!Held, Ops!Known, Ops!Saved
  <2>3. i \notin contested => Ops!Held(i)' = Ops!Known(i)' /\ Ops!Saved(i)' \subseteq Ops!Held(i)'
    BY <1>4, <2>1, <2>2 DEF Ops!Reached
  <2>4. \A id \in InstanceIds \ {i} : OpsAlone(id)
    BY <2>1 DEF OpsAlone
  <2> QED BY <1>7, <2>1, <2>3, <2>4 DEF Ops!OperatorsInv
<1>18. CASE Ops!deprovision_postgres(c) \/ Ops!deprovision_mysql(c) \/ Ops!deprovision_redis(c)
  <2>1. \E f : Ops!Remove(c, f) /\ f = op[c].engine
    BY <1>18 DEF Ops!deprovision_postgres, Ops!deprovision_mysql, Ops!deprovision_redis, Ops!Remove
  <2> QED BY <1>2, <1>13, <2>1
<1> QED BY <1>10, <1>11, <1>12, <1>14, <1>15, <1>16, <1>17, <1>18

\* The manager's map and the engines' maps, written apart, agree on every id
\* that no call is on, unless calls on it overlapped.
THEOREM TrackingHolds == CPSpec => []TrackedAtRest
<1>1. Ops!Init => Ops!OperatorsInv
  BY DEF Ops!Init, Ops!OperatorsInv, Ops!TrackedAtRest, Ops!Busy, Ops!Idle, Ops!NoOp
<1>2. Ops!OperatorsInv /\ [Ops!Next]_Ops!operatorVars => Ops!OperatorsInv'
  <2> SUFFICES ASSUME Ops!OperatorsInv, [Ops!Next]_Ops!operatorVars PROVE Ops!OperatorsInv'
    OBVIOUS
  <2>1. CASE UNCHANGED Ops!operatorVars
    <3>1. \A id : (\A do, e : Ops!Reached(id, do, e)' <=> Ops!Reached(id, do, e))
                  /\ Ops!Busy(id)' = Ops!Busy(id)
      BY <2>1, AloneReached DEF Ops!operatorVars, OpsAlone, Ops!Busy, Ops!Idle
    <3>2. Ops!TrackedAtRest'
      BY <2>1, <3>1 DEF Ops!operatorVars, Ops!OperatorsInv, Ops!TrackedAtRest
    <3> QED BY <2>1, <3>1, <3>2 DEF Ops!operatorVars, Ops!OperatorsInv
  <2>2. ASSUME NEW c \in Clients,
               \/ Ops!Provision(c) \/ Ops!Deprovision(c) \/ Ops!Scale(c)
               \/ Ops!backup_postgres(c) \/ Ops!backup_mysql(c) \/ Ops!backup_redis(c)
        PROVE  Ops!OperatorsInv'
    <3>1. \E do \in {"store", "final", "remove", "push", "scale"},
             e \in Ops!Engines, id \in InstanceIds, r \in Requests \cup {Ops!NoRequest} :
               /\ Ops!Begin(c, do, e, id, r)
               /\ do # "store" <=> <<e, id>> \in DOMAIN running
      <4>1. CASE Ops!Provision(c)
        BY <4>1 DEF Ops!Provision
      <4>2. CASE Ops!Deprovision(c)
        <5>1. PICK id \in DOMAIN instances :
                LET e == instances[id]
                IN /\ <<e, id>> \in DOMAIN running
                   /\ Ops!Begin(c, IF e = "postgres" /\ running[<<e, id>>].backup THEN "final" ELSE "remove",
                                e, id, Ops!NoRequest)
          BY <4>2 DEF Ops!Deprovision
        <5>2. instances[id] \in Ops!Engines /\ id \in InstanceIds
          BY <5>1 DEF Ops!OperatorsInv
        <5> QED BY <5>1, <5>2
      <4>3. CASE Ops!Scale(c)
        <5>1. PICK k \in DOMAIN running, r \in Requests : Ops!Begin(c, "scale", k[1], k[2], r)
          BY <4>3 DEF Ops!Scale
        <5>2. k[1] \in Ops!Engines /\ k[2] \in InstanceIds /\ k = <<k[1], k[2]>>
          BY <5>1 DEF Ops!OperatorsInv
        <5> QED BY <5>1, <5>2
      <4>4. ASSUME NEW e \in Ops!Engines, Ops!Backup(c, e)
            PROVE  \E id \in InstanceIds : /\ Ops!Begin(c, "push", e, id, Ops!NoRequest)
                                           /\ <<e, id>> \in DOMAIN running
        BY <4>4 DEF Ops!Backup
      <4>5. "postgres" \in Ops!Engines /\ "mysql" \in Ops!Engines /\ "redis" \in Ops!Engines
        BY DEF Ops!Engines
      <4>6. CASE Ops!backup_postgres(c) \/ Ops!backup_mysql(c) \/ Ops!backup_redis(c)
        <5>1. \E e \in Ops!Engines : Ops!Backup(c, e)
          BY <4>5, <4>6 DEF Ops!backup_postgres, Ops!backup_mysql, Ops!backup_redis
        <5> QED BY <4>4, <5>1
      <4> QED BY <2>2, <4>1, <4>2, <4>3, <4>6
    <3>2. Ops!Idle(c) /\ UNCHANGED <<instances, running, kept>>
      BY <2>2 DEF Ops!Provision, Ops!Deprovision, Ops!Scale, Ops!backup_postgres, Ops!backup_mysql,
         Ops!backup_redis, Ops!Backup
    <3>3. PICK do \in {"store", "final", "remove", "push", "scale"},
               e \in Ops!Engines, id \in InstanceIds, r \in Requests \cup {Ops!NoRequest} :
                 /\ Ops!Begin(c, do, e, id, r)
                 /\ do # "store" <=> <<e, id>> \in DOMAIN running
      BY <3>1
    <3>4. do # "store" <=> <<e, id>> \in DOMAIN running
      BY <3>3
    <3> QED BY <3>2, <3>3, <3>4, CallBegins, Zenon
  <2>3. ASSUME NEW c \in Clients,
               \/ Ops!Store(c) \/ Ops!Track(c) \/ Ops!FinalBackup(c) \/ Ops!Purge(c) \/ Ops!Untrack(c)
               \/ Ops!deprovision_postgres(c) \/ Ops!deprovision_mysql(c) \/ Ops!deprovision_redis(c)
               \/ Ops!Push(c) \/ Ops!ScaleStore(c)
        PROVE  Ops!OperatorsInv'
    BY <2>3, CallKeeps
  <2> QED BY <2>1, <2>2, <2>3 DEF Ops!Next
<1>3. Ops!OperatorsInv => TrackedAtRest
  BY DEF Ops!OperatorsInv, TrackedAtRest
<1> QED BY Starts, Steps, <1>1, <1>2, <1>3, PTL DEF CPSpec

-----------------------------------------------------------------------------
\* What every step keeps of the rows: identifiers stay drawn, none comes back,
\* and a row that stays keeps its table and its parent.
Kept ==
    /\ used \subseteq used'
    /\ DOMAIN db' \cap used \subseteq DOMAIN db
    /\ \A i \in DOMAIN db' \cap DOMAIN db :
         db'[i].table = db[i].table /\ db'[i].parent = db[i].parent

LEMMA CopiesStayRight ==
    ASSUME NEW k, Rest!CallOK(k), Kept, k.op \in Rest!Copies => k.op # "idle"
    PROVE  Rest!CallOK(k)'
BY DEF Rest!CallOK, Kept

LEMMA NoCopyIdle == \A k : k.op \in Rest!Copies => k.op # "idle"
BY DEF Rest!Copies, Rest!TableOf

\* The rows the handlers insert.
LEMMA InsertedRows ==
    /\ \A t \in Rest!Tables, p \in Ids \cup {NoId}, s \in Rest!Statuses :
         /\ Rest!NewRow(t, p, s) \in Rest!Row
         /\ Rest!NewRow(t, p, s).table = t /\ Rest!NewRow(t, p, s).parent = p
    /\ Rest!Owned \subseteq Rest!Tables
    /\ {"organizations", "deployments", "builds"} \subseteq Rest!Tables
    /\ {"apps", "nodes", "volumes", "domains", "managed_databases", "secrets"} = Rest!Owned
    /\ "organizations" \notin Rest!Owned
    /\ \A r \in {Rest!insert_app, Rest!insert_node, Rest!insert_volume, Rest!insert_domain,
                 Rest!insert_managed_database, Rest!insert_secret, Rest!insert_build} :
         r \in Rest!Row /\ r.table # "organizations" /\ r.parent = NoId
    /\ Rest!insert_organization \in Rest!Row /\ Rest!insert_organization.table = "organizations"
<1>1. \A t \in Rest!Tables, p \in Ids \cup {NoId}, s \in Rest!Statuses :
         /\ Rest!NewRow(t, p, s) \in Rest!Row
         /\ Rest!NewRow(t, p, s).table = t /\ Rest!NewRow(t, p, s).parent = p
  BY DEF Rest!NewRow, Rest!Row
<1>2. /\ Rest!Owned \subseteq Rest!Tables
      /\ {"organizations", "deployments", "builds"} \subseteq Rest!Tables
      /\ {"apps", "nodes", "volumes", "domains", "managed_databases", "secrets"} = Rest!Owned
      /\ "organizations" \notin Rest!Owned
  BY DEF Rest!Tables, Rest!Owned
<1>3. {"creating", "ready", "pending", "provisioning", "v1", "free"} \subseteq Rest!Statuses
  BY DEF Rest!Statuses
<1>4. \A r \in {Rest!insert_app, Rest!insert_node, Rest!insert_volume, Rest!insert_domain,
                 Rest!insert_managed_database, Rest!insert_secret, Rest!insert_build} :
         r \in Rest!Row /\ r.table # "organizations" /\ r.parent = NoId
  <2>1. \A t \in Rest!Tables, s \in Rest!Statuses : t # "organizations" =>
          LET r == Rest!NewRow(t, NoId, s)
          IN  r \in Rest!Row /\ r.table # "organizations" /\ r.parent = NoId
    BY <1>1
  <2>2. \A r \in {Rest!insert_app, Rest!insert_node, Rest!insert_volume, Rest!insert_domain,
                  Rest!insert_managed_database, Rest!insert_secret, Rest!insert_build} :
           \E t \in Rest!Tables, s \in Rest!Statuses : t # "organizations" /\ r = Rest!NewRow(t, NoId, s)
    BY <1>2, <1>3 DEF Rest!insert_app, Rest!insert_node, Rest!insert_volume,
       Rest!insert_domain, Rest!insert_managed_database, Rest!insert_secret, Rest!insert_build
  <2> QED BY <2>1, <2>2
<1>5. Rest!insert_organization \in Rest!Row /\ Rest!insert_organization.table = "organizations"
  <2>1. "organizations" \in Rest!Tables /\ "free" \in Rest!Statuses
    BY <1>2, <1>3
  <2>2. LET r == Rest!NewRow("organizations", NoId, "free")
        IN  r \in Rest!Row /\ r.table = "organizations"
    BY <1>1, <2>1
  <2> QED BY <2>2 DEF Rest!insert_organization
<1> QED BY <1>1, <1>2, <1>4, <1>5

LEMMA IdleIsFine ==
    /\ Rest!Idle \in Rest!Calls /\ Rest!Idle.op = "idle"
    /\ Rest!CallOK(Rest!Idle)'
<1>1. Rest!Idle.op = "idle" /\ Rest!Idle.id = NoId /\ Rest!Idle.row = Rest!insert_app
  BY DEF Rest!Idle
<1>2. Rest!insert_app \in Rest!Row
  BY InsertedRows
<1>3. Rest!Idle \in Rest!Calls
  BY <1>2 DEF Rest!Calls, Rest!Idle
<1> QED BY <1>1, <1>3 DEF Rest!CallOK, Rest!Copies, Rest!TableOf

\* A step that keeps the rows right, and moves one call to a right one, keeps
\* the invariant.
LEMMA OneCallMoves ==
    ASSUME Rest!ApiInv, NEW c \in Clients, NEW k \in Rest!Calls, Rest!CallOK(k)',
           request' = [request EXCEPT ![c] = k], Kept, Rest!RowsOK'
    PROVE  Rest!ApiInv'
<1>1. request \in [Clients -> Rest!Calls]
  BY DEF Rest!ApiInv
<1>2. Rest!Calls' = Rest!Calls
  BY DEF Rest!Calls, Rest!Row
<1>3. request' \in [Clients -> Rest!Calls] /\ request'[c] = k
      /\ \A d \in Clients \ {c} : request'[d] = request[d]
  BY <1>1
<1>4. ASSUME NEW d \in Clients PROVE Rest!CallOK(request[d])'
  <2>1. CASE d = c
    BY <1>3, <2>1
  <2>2. CASE d # c
    <3>1. PICK h : h = request[d]
      OBVIOUS
    <3>2. Rest!CallOK(h)
      BY <3>1 DEF Rest!ApiInv
    <3>3. Rest!CallOK(h)'
      BY <3>2, CopiesStayRight, NoCopyIdle
    <3>4. request'[d] = h
      BY <1>3, <2>2, <3>1
    <3> QED BY <3>3, <3>4
  <2> QED BY <2>1, <2>2
<1> QED BY <1>3, <1>4 DEF Rest!ApiInv, Rest!Calls, Rest!Row

\* The ends of a call.
LEMMA Answered ==
    ASSUME Rest!ApiInv, NEW c \in Clients, NEW s, Rest!Answer(c, s), Kept, Rest!RowsOK'
    PROVE  Rest!ApiInv'
<1>1. PICK k : k = Rest!Idle
  OBVIOUS
<1>2. k \in Rest!Calls /\ Rest!CallOK(k)'
  BY <1>1, IdleIsFine
<1>3. request' = [request EXCEPT ![c] = k]
  BY <1>1 DEF Rest!Answer
<1> QED BY <1>2, <1>3, OneCallMoves

LEMMA Going ==
    ASSUME Rest!ApiInv, NEW c \in Clients, NEW o, NEW i, NEW r, Rest!Goes(c, o, i, r),
           [op |-> o, id |-> i, row |-> r] \in Rest!Calls, i \in used', 
           o \in Rest!Copies /\ i \in DOMAIN db' => db'[i].table = r.table /\ db'[i].parent = r.parent,
           o = "deploy" => r.table = "apps", o = "register" => r = Rest!insert_node,
           Kept, Rest!RowsOK'
    PROVE  Rest!ApiInv'
<1>1. PICK k : k = [op |-> o, id |-> i, row |-> r]
  OBVIOUS
<1>2. k \in Rest!Calls /\ k.op = o /\ k.id = i /\ k.row = r
  BY <1>1
<1>3. Rest!CallOK(k)'
  BY <1>2 DEF Rest!CallOK
<1>4. request' = [request EXCEPT ![c] = k]
  BY <1>1 DEF Rest!Goes
<1> QED BY <1>2, <1>3, <1>4, OneCallMoves

\* The rows, when none of them changes.
LEMMA RowsStay ==
    ASSUME Rest!ApiInv, UNCHANGED <<db, gone>>, used \subseteq used', used' \subseteq Ids,
           agents' \subseteq agents \cup (used' \ used)
    PROVE  Kept /\ Rest!RowsOK'
<1>1. Kept
  BY DEF Kept
<1>2. \A i \in DOMAIN db : Rest!Belongs(db[i])'
  BY DEF Rest!ApiInv, Rest!RowsOK, Rest!Belongs
<1>3. db \in [DOMAIN db -> Rest!Row]
  BY DEF Rest!ApiInv, Rest!RowsOK
<1> QED BY <1>1, <1>2, <1>3 DEF Rest!ApiInv, Rest!RowsOK, Rest!Row

\* A row of an identifier just drawn.
LEMMA RowComes ==
    ASSUME Rest!ApiInv, NEW id \in Ids \ used, NEW r \in Rest!Row, Rest!Belongs(r),
           db' = Rest!With(id, r), used' = used \cup {id}, UNCHANGED <<agents, gone>>
    PROVE  Kept /\ Rest!RowsOK'
<1>1. /\ DOMAIN db' = DOMAIN db \cup {id} /\ db' \in [DOMAIN db' -> Rest!Row]
      /\ db'[id] = r /\ \A i \in DOMAIN db : db'[i] = db[i]
  BY DEF Rest!With, Rest!ApiInv, Rest!RowsOK
<1>2. Kept
  BY <1>1 DEF Kept
<1>3. \A x : Rest!Belongs(x) => Rest!Belongs(x)'
  BY <1>1 DEF Rest!Belongs
<1>4. ASSUME NEW i \in DOMAIN db' PROVE Rest!Belongs(db[i])'
  <2>1. PICK x : x = db'[i]
    OBVIOUS
  <2>2. Rest!Belongs(x)
    BY <1>1, <1>4, <2>1 DEF Rest!ApiInv, Rest!RowsOK
  <2>3. Rest!Belongs(x)'
    BY <1>3, <2>2
  <2> QED BY <2>1, <2>3
<1> QED BY <1>1, <1>2, <1>4 DEF Rest!ApiInv, Rest!RowsOK, Rest!Row

\* A row written over: table and parent stay.
LEMMA RowChanges ==
    ASSUME Rest!ApiInv, NEW id, NEW r \in Rest!Row,
           id \in DOMAIN db => db[id].table = r.table /\ db[id].parent = r.parent,
           db' = Rest!update(id, r), UNCHANGED <<used, agents, gone>>
    PROVE  Kept /\ Rest!RowsOK'
<1>1. /\ DOMAIN db' = DOMAIN db /\ db' \in [DOMAIN db' -> Rest!Row]
      /\ \A i \in DOMAIN db : db'[i].table = db[i].table /\ db'[i].parent = db[i].parent
  <2>1. db \in [DOMAIN db -> Rest!Row]
    BY DEF Rest!ApiInv, Rest!RowsOK
  <2>2. CASE id \in DOMAIN db
    <3>1. db' = [db EXCEPT ![id] = r]
      BY <2>2 DEF Rest!update
    <3> QED BY <2>1, <2>2, <3>1
  <2>3. CASE id \notin DOMAIN db
    <3>1. db' = db
      BY <2>3 DEF Rest!update
    <3> QED BY <2>1, <3>1
  <2> QED BY <2>2, <2>3
<1>2. Kept
  BY <1>1 DEF Kept
<1>3. \A i \in DOMAIN db' : Rest!Belongs(db[i])'
  BY <1>1 DEF Rest!Belongs, Rest!ApiInv, Rest!RowsOK
<1> QED BY <1>1, <1>2, <1>3 DEF Rest!ApiInv, Rest!RowsOK, Rest!Row

\* A row deleted, which no row refers to.
LEMMA RowGoes ==
    ASSUME Rest!ApiInv, NEW id \in DOMAIN db, \A i \in DOMAIN db : db[i].table # "organizations" => db[i].parent # id,
           db' = Rest!Without(id), gone' = gone \cup {id}, UNCHANGED <<used, agents>>
    PROVE  Kept /\ Rest!RowsOK'
<1>1. /\ DOMAIN db' = DOMAIN db \ {id} /\ db' \in [DOMAIN db' -> Rest!Row]
      /\ \A i \in DOMAIN db' : db'[i] = db[i]
  BY DEF Rest!Without, Rest!ApiInv, Rest!RowsOK
<1>2. Kept
  BY <1>1 DEF Kept
<1>3. \A i \in DOMAIN db' : Rest!Belongs(db[i])'
  BY <1>1 DEF Rest!Belongs, Rest!ApiInv, Rest!RowsOK
<1> QED BY <1>1, <1>2, <1>3 DEF Rest!ApiInv, Rest!RowsOK, Rest!Row

\* No call moves.
LEMMA CallsStay ==
    ASSUME Rest!ApiInv, UNCHANGED request, Kept, Rest!RowsOK'
    PROVE  Rest!ApiInv'
<1>1. request' \in [Clients -> Rest!Calls]
  BY DEF Rest!ApiInv
<1>2. ASSUME NEW d \in Clients PROVE Rest!CallOK(request[d])'
  <2>1. PICK h : h = request[d]
    OBVIOUS
  <2>2. Rest!CallOK(h)'
    BY <2>1, CopiesStayRight, NoCopyIdle DEF Rest!ApiInv
  <2> QED BY <2>1, <2>2
<1> QED BY <1>1, <1>2 DEF Rest!ApiInv, Rest!Calls, Rest!Row

LEMMA FreshIdIsNew == Rest!Fresh \subseteq Ids \ used
BY DEF Rest!Fresh

LEMMA NoParent ==
    ASSUME Rest!ApiInv, NEW r, r.table # "organizations", r.parent = NoId
    PROVE  ~Rest!Refers(r)
BY ControlPlaneAssumption DEF Rest!ApiInv, Rest!RowsOK, Rest!Refers

\* A create handler stores an organization; it is refused anything else.
LEMMA CreateKeeps ==
    ASSUME Rest!ApiInv, NEW c \in Clients, NEW r \in Rest!Row,
           Rest!Refers(r) => r.table = "organizations", Rest!Create(c, r)
    PROVE  Rest!ApiInv'
<1>1. CASE Rest!Answer(c, "400") /\ UNCHANGED <<db, used>>
  BY <1>1, RowsStay, Answered DEF Rest!Create, Rest!ApiInv, Rest!RowsOK
<1>2. ASSUME NEW id \in Rest!Fresh, used' = used \cup {id},
             IF Rest!Refers(r)
             THEN db' = Rest!With(id, r) /\ Rest!Goes(c, "fetch", id, r)
             ELSE Rest!Answer(c, "500") /\ UNCHANGED db
      PROVE  Rest!ApiInv'
  <2>1. id \in Ids \ used /\ UNCHANGED <<agents, gone>> /\ used \subseteq Ids
    BY FreshIdIsNew DEF Rest!Create, Rest!ApiInv, Rest!RowsOK
  <2>2. CASE Rest!Refers(r)
    <3>1. Rest!Belongs(r)
      BY <2>2 DEF Rest!Belongs
    <3>2. Kept /\ Rest!RowsOK'
      BY <1>2, <2>1, <2>2, <3>1, RowComes
    <3>3. [op |-> "fetch", id |-> id, row |-> r] \in Rest!Calls /\ "fetch" \notin Rest!Copies
      BY <2>1 DEF Rest!Calls, Rest!Copies, Rest!TableOf
    <3> QED BY <1>2, <2>1, <2>2, <3>2, <3>3, Going
  <2>3. CASE ~Rest!Refers(r)
    BY <1>2, <2>1, <2>3, RowsStay, Answered
  <2> QED BY <2>2, <2>3
<1> QED BY <1>1, <1>2 DEF Rest!Create

LEMMA CreatesKeep ==
    ASSUME Rest!ApiInv, NEW c \in Clients,
           \/ Rest!CreateApp(c) \/ Rest!CreateVolume(c) \/ Rest!CreateDomain(c)
           \/ Rest!CreateDatabase(c) \/ Rest!CreateSecret(c) \/ Rest!CreateOrganization(c)
    PROVE  Rest!ApiInv'
<1>1. ASSUME NEW r \in {Rest!insert_app, Rest!insert_volume, Rest!insert_domain,
                        Rest!insert_managed_database, Rest!insert_secret},
             Rest!Create(c, r)
      PROVE  Rest!ApiInv'
  <2>1. r \in Rest!Row /\ ~Rest!Refers(r)
    BY <1>1, InsertedRows, NoParent
  <2> QED BY <1>1, <2>1, CreateKeeps
<1>2. ASSUME Rest!Create(c, Rest!insert_organization)
      PROVE  Rest!ApiInv'
  BY <1>2, InsertedRows, CreateKeeps
<1>3. ASSUME Rest!Answer(c, "500"), UNCHANGED <<db, agents, used, gone>>
      PROVE  Rest!ApiInv'
  BY <1>3, RowsStay, Answered DEF Rest!ApiInv, Rest!RowsOK
<1> QED BY <1>1, <1>2, <1>3 DEF Rest!CreateApp, Rest!CreateVolume, Rest!CreateDomain,
           Rest!CreateDatabase, Rest!CreateSecret, Rest!CreateOrganization

LEMMA WebhookKeeps ==
    ASSUME Rest!ApiInv, NEW c \in Clients, Rest!Webhook(c)
    PROVE  Rest!ApiInv'
<1>1. ~Rest!Refers(Rest!insert_build)
  BY InsertedRows, NoParent
<1>2. PICK id \in Rest!Fresh : used' = used \cup {id} /\ Rest!Answer(c, "500") /\ UNCHANGED <<db, agents, gone>>
  BY <1>1 DEF Rest!Webhook
<1> QED BY <1>2, FreshIdIsNew, RowsStay, Answered DEF Rest!ApiInv, Rest!RowsOK

\* What only reads and answers.
LEMMA ReadKeeps ==
    ASSUME Rest!ApiInv, NEW c \in Clients, Rest!Fetch(c) \/ Rest!Reads(c)
    PROVE  Rest!ApiInv'
<1>1. ASSUME NEW t, Rest!Look(c, t) PROVE Rest!ApiInv'
  BY <1>1, RowsStay, Answered DEF Rest!Look, Rest!ApiInv, Rest!RowsOK
<1>2. ASSUME NEW t, Rest!List(c, t) PROVE Rest!ApiInv'
  BY <1>2, RowsStay, Answered DEF Rest!List, Rest!ApiInv, Rest!RowsOK
<1>3. ASSUME Rest!get_node(c) PROVE Rest!ApiInv'
  BY <1>3, RowsStay, Answered DEF Rest!get_node, Rest!ApiInv, Rest!RowsOK
<1>4. ASSUME Rest!list_nodes(c) PROVE Rest!ApiInv'
  BY <1>4, RowsStay, Answered DEF Rest!list_nodes, Rest!ApiInv, Rest!RowsOK
<1>5. ASSUME Rest!Fetch(c) PROVE Rest!ApiInv'
  BY <1>5, RowsStay, Answered DEF Rest!Fetch, Rest!ApiInv, Rest!RowsOK
<1>6. CASE \/ Rest!get_app(c) \/ Rest!get_volume(c) \/ Rest!get_domain(c) \/ Rest!get_database(c)
           \/ Rest!get_secret(c) \/ Rest!get_build(c) \/ Rest!get_organization(c)
           \/ Rest!restart_app(c) \/ Rest!snapshot_volume(c) \/ Rest!backup_database(c)
           \/ Rest!restore_database(c) \/ Rest!get_build_logs(c) \/ Rest!cancel_build(c)
  BY <1>1, <1>6 DEF Rest!get_app, Rest!get_volume, Rest!get_domain, Rest!get_database,
     Rest!get_secret, Rest!get_build, Rest!get_organization, Rest!restart_app,
     Rest!snapshot_volume, Rest!backup_database, Rest!restore_database,
     Rest!get_build_logs, Rest!cancel_build
<1>7. CASE \/ Rest!list_apps(c) \/ Rest!list_volumes(c) \/ Rest!list_domains(c)
           \/ Rest!list_databases(c) \/ Rest!list_secrets(c) \/ Rest!list_builds(c)
           \/ Rest!list_organizations(c)
  BY <1>2, <1>7 DEF Rest!list_apps, Rest!list_volumes, Rest!list_domains,
     Rest!list_databases, Rest!list_secrets, Rest!list_builds, Rest!list_organizations
<1>8. CASE Rest!get_metrics(c)
  BY <1>4, <1>8 DEF Rest!get_metrics
<1> QED BY <1>3, <1>4, <1>5, <1>6, <1>7, <1>8 DEF Rest!Reads

LEMMA DeleteKeeps ==
    ASSUME Rest!ApiInv, NEW c \in Clients,
           \/ Rest!DeleteApp(c) \/ Rest!DeleteVolume(c) \/ Rest!DeleteDomain(c)
           \/ Rest!DeleteDatabase(c) \/ Rest!DeleteSecret(c)
    PROVE  Rest!ApiInv'
<1>1. PICK t : Rest!Delete(c, t)
  BY DEF Rest!DeleteApp, Rest!DeleteVolume, Rest!DeleteDomain, Rest!DeleteDatabase,
         Rest!DeleteSecret
<1>2. CASE \E s : Rest!Answer(c, s) /\ UNCHANGED <<db, gone>>
  BY <1>1, <1>2, RowsStay, Answered DEF Rest!Delete, Rest!ApiInv, Rest!RowsOK
<1>3. ASSUME NEW id \in used, Rest!In(t, id), ~Rest!Referenced(id), db' = Rest!Without(id),
             gone' = gone \cup {id}, Rest!Answer(c, "2xx")
      PROVE  Rest!ApiInv'
  <2>1. id \in DOMAIN db /\ \A i \in DOMAIN db : db[i].parent # id
    BY <1>3 DEF Rest!In, Rest!Referenced
  <2> QED BY <1>1, <1>3, <2>1, RowGoes, Answered DEF Rest!Delete
<1> QED BY <1>1, <1>2, <1>3 DEF Rest!Delete

LEMMA VerifyKeeps ==
    ASSUME Rest!ApiInv, NEW c \in Clients, NEW o \in DOMAIN Rest!TableOf, Rest!Verify(c, o)
    PROVE  Rest!ApiInv'
<1>1. PICK id \in used :
        CASE Rest!Find(Rest!TableOf[o], id) = "none"  -> Rest!Answer(c, "404")
          [] Rest!Find(Rest!TableOf[o], id) = "error" -> Rest!Answer(c, "500")
          [] OTHER -> Rest!Goes(c, o, id, db[id])
  BY DEF Rest!Verify
<1>2. Kept /\ Rest!RowsOK' /\ UNCHANGED <<db, used>>
  BY RowsStay DEF Rest!Verify, Rest!ApiInv, Rest!RowsOK
<1>3. CASE \E s : Rest!Answer(c, s)
  BY <1>2, <1>3, Answered
<1>4. CASE Rest!Find(Rest!TableOf[o], id) \notin {"none", "error"} /\ Rest!Goes(c, o, id, db[id])
  <2>1. id \in DOMAIN db /\ db[id].table = Rest!TableOf[o]
    BY <1>4 DEF Rest!Find, Rest!In
  <2>2. db[id] \in Rest!Row /\ id \in Ids
    BY <2>1 DEF Rest!ApiInv, Rest!RowsOK
  <2>3. [op |-> o, id |-> id, row |-> db[id]] \in Rest!Calls
    BY <2>2 DEF Rest!Calls, Rest!Copies
  <2>4. o # "register" /\ (o = "deploy" => db[id].table = "apps")
    BY <2>1 DEF Rest!TableOf
  <2>5. PICK r : r = db[id]
    OBVIOUS
  <2> QED BY <1>1, <1>2, <1>4, <2>1, <2>3, <2>4, <2>5, Going
<1> QED BY <1>1, <1>3, <1>4

LEMMA DeployKeeps ==
    ASSUME Rest!ApiInv, NEW c \in Clients, Rest!Deploy(c)
    PROVE  Rest!ApiInv'
<1>1. PICK id \in Rest!Fresh :
        /\ used' = used \cup {id}
        /\ IF request[c].id \in DOMAIN db
           THEN /\ db' = Rest!With(id, Rest!insert_deployment(request[c].id))
                /\ Rest!Answer(c, "2xx")
           ELSE UNCHANGED db /\ Rest!Answer(c, "500")
  BY DEF Rest!Deploy
<1>2. id \in Ids \ used /\ UNCHANGED <<agents, gone>> /\ used \subseteq Ids
  BY FreshIdIsNew DEF Rest!Deploy, Rest!ApiInv, Rest!RowsOK
<1>3. PICK app : app = request[c].id
  OBVIOUS
<1>4. CASE app \in DOMAIN db
  <2>1. db[app].table = "apps" /\ app \in Ids
    BY <1>3, <1>4 DEF Rest!ApiInv, Rest!RowsOK, Rest!CallOK, Rest!Copies, Rest!TableOf, Rest!Deploy
  <2>2. PICK r : r = Rest!NewRow("deployments", app, "pending")
    OBVIOUS
  <2>3. "deployments" \in Rest!Tables /\ "pending" \in Rest!Statuses
    BY InsertedRows DEF Rest!Statuses
  <2>4. r \in Rest!Row /\ r.parent = app
    BY <2>1, <2>2, <2>3, InsertedRows
  <2>5. Rest!Belongs(r)
    BY <1>4, <2>1, <2>4 DEF Rest!Belongs
  <2>6. db' = Rest!With(id, r) /\ Rest!Answer(c, "2xx")
    BY <1>1, <1>3, <1>4, <2>2 DEF Rest!insert_deployment
  <2> QED BY <1>1, <1>2, <2>4, <2>5, <2>6, RowComes, Answered
<1>5. CASE app \notin DOMAIN db
  BY <1>1, <1>2, <1>3, <1>5, RowsStay, Answered
<1> QED BY <1>4, <1>5

LEMMA WrittenIsCopy ==
    ASSUME NEW o \in DOMAIN Rest!TableOf \ {"deploy"}, NEW r \in Rest!Row
    PROVE  LET w == Rest!Written(o, r)
           IN  w \in Rest!Row /\ w.table = r.table /\ w.parent = r.parent
<1>1. ASSUME NEW s \in Rest!Statuses
      PROVE  LET w == [r EXCEPT !.status = s]
             IN  w \in Rest!Row /\ w.table = r.table /\ w.parent = r.parent
  BY DEF Rest!Row
<1>2. {"stopped", "running", "attached", "available", "verified", "v2"} \subseteq Rest!Statuses
  BY DEF Rest!Statuses
<1>3. \/ Rest!Written(o, r) = r
      \/ \E s \in Rest!Statuses : Rest!Written(o, r) = [r EXCEPT !.status = s]
  BY <1>2 DEF Rest!Written, Rest!TableOf, Rest!scale_app, Rest!stop_app, Rest!start_app,
     Rest!attach_volume, Rest!detach_volume, Rest!verify_domain, Rest!rotate_secret
<1>4. CASE Rest!Written(o, r) = r
  BY <1>4
<1>5. CASE \E s \in Rest!Statuses : Rest!Written(o, r) = [r EXCEPT !.status = s]
  BY <1>1, <1>5
<1> QED BY <1>3, <1>4, <1>5

LEMMA WriteKeeps ==
    ASSUME Rest!ApiInv, NEW c \in Clients, Rest!Write(c)
    PROVE  Rest!ApiInv'
<1>1. PICK o, i, r : o = request[c].op /\ i = request[c].id /\ r = request[c].row
  OBVIOUS
<1>2. /\ o \in DOMAIN Rest!TableOf \ {"deploy"} /\ UNCHANGED <<agents, used, gone>>
      /\ db' = Rest!update(i, Rest!Written(o, r))
      /\ Rest!Goes(c, "fetch", i, r) \/ Rest!Answer(c, "2xx")
  BY <1>1 DEF Rest!Write
<1>3. o # "idle" /\ "fetch" \notin Rest!Copies /\ o \in Rest!Copies
  BY <1>2 DEF Rest!TableOf, Rest!Copies
<1>4. request[c] \in Rest!Calls
  BY DEF Rest!ApiInv
<1>5. r \in Rest!Row /\ i \in used
  BY <1>1, <1>3, <1>4 DEF Rest!ApiInv, Rest!CallOK, Rest!Calls
<1>6. i \in DOMAIN db => db[i].table = r.table /\ db[i].parent = r.parent
  BY <1>1, <1>3 DEF Rest!ApiInv, Rest!CallOK
<1>7. PICK w : w = Rest!Written(o, r)
  OBVIOUS
<1>8. w \in Rest!Row /\ w.table = r.table /\ w.parent = r.parent
  BY <1>2, <1>5, <1>7, WrittenIsCopy
<1>9. Kept /\ Rest!RowsOK'
  BY <1>2, <1>6, <1>7, <1>8, RowChanges
<1>10. [op |-> "fetch", id |-> i, row |-> r] \in Rest!Calls
  BY <1>5 DEF Rest!ApiInv, Rest!RowsOK, Rest!Calls
<1> QED BY <1>2, <1>3, <1>5, <1>9, <1>10, Going, Answered

LEMMA RegisterKeeps ==
    ASSUME Rest!ApiInv, NEW c \in Clients, Rest!RegisterNode(c) \/ Rest!DeregisterNode(c)
    PROVE  Rest!ApiInv'
<1>1. PICK r : r = Rest!insert_node
  OBVIOUS
<1>2. r \in Rest!Row /\ {"register", "deregister"} \cap Rest!Copies = {}
  BY <1>1, InsertedRows DEF Rest!Copies, Rest!TableOf
<1>3. CASE Rest!RegisterNode(c)
  <2>1. PICK id \in Rest!Fresh : used' = used \cup {id} /\ agents' = agents \cup {id}
                                 /\ Rest!Goes(c, "register", id, r)
    BY <1>1, <1>3 DEF Rest!RegisterNode
  <2>2. id \in Ids \ used
    BY <2>1, FreshIdIsNew
  <2>3. Kept /\ Rest!RowsOK'
    BY <1>3, <2>1, <2>2, RowsStay DEF Rest!RegisterNode, Rest!ApiInv, Rest!RowsOK
  <2>4. [op |-> "register", id |-> id, row |-> r] \in Rest!Calls
    BY <1>2, <2>2 DEF Rest!Calls
  <2>5. id \in used'
    BY <2>1
  <2> QED BY <1>1, <1>2, <2>1, <2>3, <2>4, <2>5, Going
<1>4. CASE Rest!DeregisterNode(c)
  <2>1. PICK id \in used : agents' = agents \ {id} /\ Rest!Goes(c, "deregister", id, r)
    BY <1>1, <1>4 DEF Rest!DeregisterNode
  <2>2. id \in Ids /\ id \in used'
    BY <1>4, <2>1 DEF Rest!ApiInv, Rest!RowsOK, Rest!DeregisterNode
  <2>3. Kept /\ Rest!RowsOK'
    BY <1>4, <2>1, RowsStay DEF Rest!DeregisterNode, Rest!ApiInv, Rest!RowsOK
  <2>4. [op |-> "deregister", id |-> id, row |-> r] \in Rest!Calls
    BY <1>2, <2>2 DEF Rest!Calls
  <2> QED BY <1>1, <1>2, <2>1, <2>2, <2>3, <2>4, Going
<1> QED BY <1>3, <1>4

LEMMA NodeRowKeeps ==
    ASSUME Rest!ApiInv, NEW c \in Clients, Rest!RegisterRow(c) \/ Rest!DeregisterRow(c)
    PROVE  Rest!ApiInv'
<1>1. CASE Rest!RegisterRow(c)
  <2>1. request[c].row = Rest!insert_node
    BY <1>1 DEF Rest!RegisterRow, Rest!ApiInv, Rest!CallOK
  <2>2. ~Rest!Refers(request[c].row)
    BY <2>1, InsertedRows, NoParent
  <2> QED BY <1>1, <2>2, RowsStay, Answered DEF Rest!RegisterRow, Rest!ApiInv, Rest!RowsOK
<1>2. CASE Rest!DeregisterRow(c)
  <2>1. PICK id : id = request[c].id
    OBVIOUS
  <2>2. CASE Rest!In("nodes", id)
    <3>1. id \in DOMAIN db /\ db[id].table = "nodes"
      BY <2>2 DEF Rest!In
    <3>2. \A i \in DOMAIN db : db[i].table # "organizations" => db[i].parent # id
      BY <3>1 DEF Rest!ApiInv, Rest!RowsOK, Rest!Belongs
    <3> QED BY <1>2, <2>1, <2>2, <3>1, <3>2, RowGoes, Answered DEF Rest!DeregisterRow
  <2>3. CASE ~Rest!In("nodes", id)
    BY <1>2, <2>1, <2>3, RowsStay, Answered DEF Rest!DeregisterRow, Rest!ApiInv, Rest!RowsOK
  <2> QED BY <2>2, <2>3
<1> QED BY <1>1, <1>2

LEMMA DrainKeeps ==
    ASSUME Rest!ApiInv, NEW c \in Clients, Rest!DrainNode(c) \/ Rest!DrainRow(c)
    PROVE  Rest!ApiInv'
<1>1. CASE Rest!DrainNode(c)
  <2>1. PICK id \in used :
          CASE id \in agents -> Rest!Goes(c, "drain", id, Rest!insert_node)
            [] Rest!Find("nodes", id) = "none"  -> Rest!Answer(c, "404")
            [] Rest!Find("nodes", id) = "error" -> Rest!Answer(c, "500")
            [] OTHER -> Rest!Goes(c, "drain", id, db[id])
    BY <1>1 DEF Rest!DrainNode
  <2>2. Kept /\ Rest!RowsOK' /\ UNCHANGED <<db, used>> /\ id \in Ids
    BY <1>1, <2>1, RowsStay DEF Rest!DrainNode, Rest!ApiInv, Rest!RowsOK
  <2>3. ASSUME NEW r \in Rest!Row, Rest!Goes(c, "drain", id, r),
               id \in DOMAIN db => db[id].table = r.table /\ db[id].parent = r.parent
        PROVE  Rest!ApiInv'
    <3>1. [op |-> "drain", id |-> id, row |-> r] \in Rest!Calls
      BY <2>2 DEF Rest!Calls, Rest!Copies
    <3> QED BY <2>1, <2>2, <2>3, <3>1, Going
  <2>4. CASE id \in agents /\ Rest!Goes(c, "drain", id, Rest!insert_node)
    <3>1. id \notin DOMAIN db
      BY <2>4 DEF Rest!ApiInv, Rest!RowsOK
    <3>2. Rest!insert_node \in Rest!Row
      BY InsertedRows
    <3> QED BY <2>3, <2>4, <3>1, <3>2
  <2>5. CASE \E s : Rest!Answer(c, s)
    BY <2>2, <2>5, Answered
  <2>6. CASE Rest!Find("nodes", id) \notin {"none", "error"} /\ Rest!Goes(c, "drain", id, db[id])
    <3>1. id \in DOMAIN db
      BY <2>6 DEF Rest!Find, Rest!In
    <3>2. db[id] \in Rest!Row
      BY <3>1 DEF Rest!ApiInv, Rest!RowsOK
    <3>3. PICK r : r = db[id]
      OBVIOUS
    <3> QED BY <2>3, <2>6, <3>1, <3>2, <3>3
  <2> QED BY <2>1, <2>4, <2>5, <2>6
<1>2. CASE Rest!DrainRow(c)
  <2>1. PICK i, r : i = request[c].id /\ r = request[c].row
    OBVIOUS
  <2>2. request[c] \in Rest!Calls /\ request[c].op \in Rest!Copies
    BY <1>2 DEF Rest!ApiInv, Rest!DrainRow, Rest!Copies
  <2>3. r \in Rest!Row /\ (i \in DOMAIN db => db[i].table = r.table /\ db[i].parent = r.parent)
    BY <2>1, <2>2 DEF Rest!ApiInv, Rest!CallOK, Rest!Calls
  <2>4. PICK w : w = [r EXCEPT !.status = "draining", !.readable = FALSE]
    OBVIOUS
  <2>5. w \in Rest!Row /\ w.table = r.table /\ w.parent = r.parent
    BY <2>3, <2>4 DEF Rest!Row, Rest!Statuses
  <2>6. db' = Rest!update(i, w) /\ UNCHANGED <<agents, used, gone>> /\ Rest!Answer(c, "2xx")
    BY <1>2, <2>1, <2>4 DEF Rest!DrainRow
  <2> QED BY <2>3, <2>5, <2>6, RowChanges, Answered
<1> QED BY <1>1, <1>2

LEMMA SeedKeeps ==
    ASSUME Rest!ApiInv, Rest!Seed
    PROVE  Rest!ApiInv'
<1>1. PICK id \in Rest!Fresh, t \in Rest!Owned, org \in DOMAIN db :
        /\ db[org].table = "organizations"
        /\ db' = Rest!With(id, Rest!NewRow(t, org, "ready"))
        /\ used' = used \cup {id}
        /\ UNCHANGED <<agents, sealed, request, gone>>
  BY DEF Rest!Seed
<1>2. PICK r : r = Rest!NewRow(t, org, "ready")
  OBVIOUS
<1>3. t \in Rest!Tables /\ org \in Ids /\ "ready" \in Rest!Statuses
  BY <1>1, InsertedRows DEF Rest!ApiInv, Rest!RowsOK, Rest!Statuses
<1>4. r \in Rest!Row /\ r.parent = org
  BY <1>2, <1>3, InsertedRows
<1>5. Rest!Belongs(r)
  BY <1>1, <1>4 DEF Rest!Belongs
<1>6. Kept /\ Rest!RowsOK'
  BY <1>1, <1>2, <1>4, <1>5, FreshIdIsNew, RowComes
<1> QED BY <1>1, <1>6, CallsStay

LEMMA ApiRestartKeeps ==
    ASSUME Rest!ApiInv, Rest!Restart
    PROVE  Rest!ApiInv'
<1>1. Kept /\ Rest!RowsOK'
  BY RowsStay DEF Rest!Restart, Rest!ApiInv, Rest!RowsOK
<1>2. PICK k : k = Rest!Idle
  OBVIOUS
<1>3. k \in Rest!Calls /\ Rest!CallOK(k)'
  BY <1>2, IdleIsFine
<1>4. request' = [c \in Clients |-> k]
  BY <1>2 DEF Rest!Restart
<1>5. request' \in [Clients -> Rest!Calls] /\ \A c \in Clients : request'[c] = k
  BY <1>3, <1>4
<1> QED BY <1>1, <1>3, <1>5 DEF Rest!ApiInv, Rest!Calls, Rest!Row

LEMMA ApiKeeps ==
    ASSUME Rest!ApiInv, [Rest!Next]_Rest!vars
    PROVE  Rest!ApiInv'
<1>1. CASE UNCHANGED Rest!vars
  <2>1. UNCHANGED <<db, agents, used, gone, request>>
    BY <1>1 DEF Rest!vars
  <2> QED BY <2>1, RowsStay, CallsStay DEF Rest!ApiInv, Rest!RowsOK
<1> QED BY <1>1, SeedKeeps, ApiRestartKeeps, CreatesKeep, WebhookKeeps, ReadKeeps, DeleteKeeps,
           VerifyKeeps, DeployKeeps, WriteKeeps, RegisterKeeps, NodeRowKeeps, DrainKeeps
        DEF Rest!Next

LEMMA ApiStarts == Rest!Init => Rest!ApiInv
<1> SUFFICES ASSUME Rest!Init PROVE Rest!ApiInv
  OBVIOUS
<1>1. /\ DOMAIN db = {} /\ db = [i \in {} |-> Rest!insert_app]
      /\ agents = {} /\ used = {} /\ gone = {}
  BY DEF Rest!Init
<1>2. db \in [DOMAIN db -> Rest!Row]
  BY <1>1
<1>3. Rest!RowsOK
  BY <1>1, <1>2 DEF Rest!RowsOK
<1>4. Rest!Idle \in Rest!Calls /\ Rest!Idle.op = "idle"
  BY IdleIsFine
<1>5. Rest!CallOK(Rest!Idle)
  BY <1>4, NoCopyIdle DEF Rest!CallOK
<1>6. request = [c \in Clients |-> Rest!Idle]
  BY DEF Rest!Init
<1>7. request \in [Clients -> Rest!Calls]
  BY <1>4, <1>6
<1>8. \A c \in Clients : request[c] = Rest!Idle
  BY <1>6
<1>9. \A c \in Clients : Rest!CallOK(request[c])
  BY <1>5, <1>8, Zenon
<1> QED BY <1>3, <1>7, <1>9 DEF Rest!ApiInv

\* A deletion that was answered with success is final, whatever a handler
\* that read the row before it writes back.
THEOREM DeletedIsFinal == CPSpec => []GoneStaysGone
<1>1. Rest!ApiInv => GoneStaysGone
  BY DEF Rest!ApiInv, Rest!RowsOK, GoneStaysGone, Rest!GoneStaysGone
<1>2. Rest!ApiInv /\ [Rest!Next]_Rest!vars => Rest!ApiInv'
  BY ApiKeeps
<1> QED BY Starts, Steps, ApiStarts, <1>1, <1>2, PTL DEF CPSpec

\* Every row refers to a row that exists, whatever deletions and deployments
\* come between the statements of a handler.
THEOREM NoDanglingRows == CPSpec => []ReferencesHold
<1>1. Rest!ApiInv => ReferencesHold
  BY DEF Rest!ApiInv, Rest!RowsOK, Rest!Belongs, ReferencesHold, Rest!ReferencesHold
<1>2. Rest!ApiInv /\ [Rest!Next]_Rest!vars => Rest!ApiInv'
  BY ApiKeeps
<1> QED BY Starts, Steps, ApiStarts, <1>1, <1>2, PTL DEF CPSpec

-----------------------------------------------------------------------------
\* Arithmetic of buckets.
LEMMA TimesGrows ==
    ASSUME NEW a \in Nat, NEW b \in Nat, a <= b, NEW c \in Nat
    PROVE  a * c \in Nat /\ a * c <= b * c
OBVIOUS

LEMMA DivBounds ==
    ASSUME NEW a \in Nat, NEW d \in Nat \ {0}
    PROVE  a \div d \in Nat /\ (a \div d) * d <= a /\ a < (a \div d + 1) * d
OBVIOUS

LEMMA MinOfTwo ==
    ASSUME NEW a \in Int, NEW b \in Int
    PROVE  Min({a, b}) = IF a <= b THEN a ELSE b
BY DEF Min

\* No rule exceeds the largest rate and the largest burst.
LEMMA MaxOfRules ==
    /\ MaxRate \in Nat /\ MaxBurst \in Nat /\ Second \in Nat \ {0}
    /\ \A r \in AllRules : r.rate \in 0 .. MaxRate /\ r.burst \in 0 .. MaxBurst
<1>1. \A r \in AllRules : r.rate \in Nat /\ r.burst \in Nat
  BY LimiterAssumption DEF AllRules, RuleType
<1>2. ASSUME NEW S \in SUBSET Nat, NEW m \in S, \A x \in S : x <= m
      PROVE  Max(S) \in S /\ \A x \in S : x <= Max(S)
  <2>1. \E x \in S : \A y \in S : x >= y
    BY <1>2
  <2> QED BY <2>1 DEF Max
<1>3. PICK r \in AllRules : \A s \in AllRules : s.rate <= r.rate
  BY LimiterAssumption
<1>4. PICK q \in AllRules : \A s \in AllRules : s.burst <= q.burst
  BY LimiterAssumption
<1> DEFINE Rates == {x.rate : x \in AllRules}
           Bursts == {x.burst : x \in AllRules}
<1>5. Rates \in SUBSET Nat /\ r.rate \in Rates /\ \A x \in Rates : x <= r.rate
  BY <1>1, <1>3
<1>6. Bursts \in SUBSET Nat /\ q.burst \in Bursts /\ \A x \in Bursts : x <= q.burst
  BY <1>1, <1>4
<1>7. MaxRate = Max(Rates) /\ MaxBurst = Max(Bursts)
  BY DEF MaxRate, MaxBurst
<1>8. \A x \in AllRules : x.rate \in Rates /\ x.burst \in Bursts
  OBVIOUS
<1> HIDE DEF Rates, Bursts
<1>9. MaxRate \in Rates /\ \A x \in Rates : x <= MaxRate
  BY <1>2, <1>5, <1>7
<1>10. MaxBurst \in Bursts /\ \A x \in Bursts : x <= MaxBurst
  BY <1>2, <1>6, <1>7
<1>11. MaxRate \in Nat /\ MaxBurst \in Nat
  BY <1>5, <1>6, <1>9, <1>10
<1>12. \A x \in AllRules : x.rate \in 0 .. MaxRate /\ x.burst \in 0 .. MaxBurst
  <2> HIDE DEF MaxRate, MaxBurst
  <2> QED BY <1>1, <1>8, <1>9, <1>10, <1>11
<1> QED BY <1>11, <1>12, LimiterAssumption

\* A bucket refilled: no more than it held and the refill since, nor than its
\* burst; what it would have held at any later tick, or the burst, it holds.
LEMMA Refilled ==
    ASSUME NEW b \in [tokens : Nat, last : 0 .. MaxTime, rate : 0 .. MaxRate, burst : 0 .. MaxBurst],
           now \in 0 .. MaxTime, b.last <= now
    PROVE  LET g == Refill(b)
               gain == (now - b.last) * b.rate
           IN  /\ g \in Bucket /\ g.last = now /\ g.rate = b.rate /\ g.burst = b.burst
               /\ gain \in Nat /\ gain <= MaxRate * (now - b.last)
               /\ g.tokens <= b.tokens + gain
               /\ g.tokens = b.tokens + gain \/ g.tokens = b.burst * Second
<1> DEFINE gain == (now - b.last) * b.rate
           cap == b.burst * Second
           m == IF b.tokens + gain <= cap THEN b.tokens + gain ELSE cap
<1>1. /\ MaxRate \in Nat /\ MaxBurst \in Nat /\ Second \in Nat \ {0} /\ MaxTime \in Nat
      /\ now \in Nat /\ b.last \in Nat /\ now - b.last \in Nat
      /\ b.rate \in Nat /\ b.rate <= MaxRate /\ b.burst \in Nat /\ b.burst <= MaxBurst
      /\ b.tokens \in Nat
  BY MaxOfRules, LimiterAssumption
<1>2. /\ gain \in Nat /\ b.rate * (now - b.last) <= MaxRate * (now - b.last)
      /\ cap \in Nat /\ cap <= MaxBurst * Second
  BY <1>1, TimesGrows
<1>3. gain = b.rate * (now - b.last)
  BY <1>1
<1>4. Min({b.tokens + gain, cap}) = m
  BY <1>1, <1>2, MinOfTwo
<1>5. Refill(b) = [b EXCEPT !.tokens = m, !.last = now]
  BY <1>4 DEF Refill
<1> HIDE DEF gain, cap
<1>6. m \in 0 .. MaxBurst * Second /\ m <= b.tokens + gain /\ (m = b.tokens + gain \/ m = cap)
  BY <1>1, <1>2
<1> HIDE DEF m
<1>7. Refill(b) \in Bucket /\ Refill(b).tokens = m /\ Refill(b).last = now
      /\ Refill(b).rate = b.rate /\ Refill(b).burst = b.burst
  BY <1>5, <1>6 DEF Bucket
<1> QED BY <1>2, <1>3, <1>6, <1>7 DEF gain, cap

\* What LimiterInv says of one key, when its records do not change.
Untouched(k) ==
    /\ history'[k] = history[k] /\ promise'[k] = promise[k]
    /\ k \in DOMAIN buckets' <=> k \in DOMAIN buckets
    /\ k \in DOMAIN buckets => buckets'[k] = buckets[k]

LEMMA KeyRests ==
    ASSUME NEW k, Untouched(k), now' = now
    PROVE  Covered(k)' = Covered(k) /\ Honoured(k)' = Honoured(k)
<1>1. Covered(k)' = Covered(k)
  BY DEF Covered, Untouched
<1>2. Honoured(k)' = Honoured(k)
  BY DEF Honoured, Untouched
<1> QED BY <1>1, <1>2

LEMMA OneKeyMoves ==
    ASSUME LimiterInv, NEW key \in Keys, now' = now, rules' \subseteq Rules,
           \A k \in Keys \ {key} : Untouched(k),
           DOMAIN buckets' \subseteq Keys, buckets' \in [DOMAIN buckets' -> Bucket],
           \A k \in DOMAIN buckets' : buckets'[k].last <= now,
           call' \in [Clients -> {NoCall} \cup Call],
           history' \in [Keys -> [since : 0 .. MaxTime, granted : Nat]],
           promise' \in [Keys -> {NoPromise} \cup Promise],
           Honoured(key)', MaxRate * StaleAfter >= MaxBurst * Second => Covered(key)'
    PROVE  LimiterInv'
<1>1. \A k \in Keys : Honoured(k)'
  BY KeyRests DEF LimiterInv
<1>2. MaxRate * StaleAfter >= MaxBurst * Second => \A k \in Keys : Covered(k)'
  BY KeyRests DEF LimiterInv
<1> QED BY <1>1, <1>2 DEF LimiterInv, Bucket

\* The bucket that Store puts down.
LEMMA BucketStored ==
    ASSUME LimiterInv, NEW key \in Keys, NEW b \in Bucket, b.last = now, buckets' = Store(key, b)
    PROVE  /\ DOMAIN buckets' \subseteq Keys /\ buckets' \in [DOMAIN buckets' -> Bucket]
           /\ key \in DOMAIN buckets' /\ buckets'[key] = b
           /\ \A k \in DOMAIN buckets' : buckets'[k].last <= now
           /\ \A k \in Keys \ {key} :
                /\ k \in DOMAIN buckets' <=> k \in DOMAIN buckets
                /\ k \in DOMAIN buckets => buckets'[k] = buckets[k]
<1>1. /\ DOMAIN buckets' = DOMAIN buckets \cup {key} /\ buckets'[key] = b
      /\ buckets' = [k \in DOMAIN buckets' |-> buckets'[k]]
      /\ \A k \in DOMAIN buckets \ {key} : buckets'[k] = buckets[k]
  BY DEF Store
<1>2. \A k \in DOMAIN buckets : buckets[k] \in Bucket /\ buckets[k].last <= now
  BY DEF LimiterInv
<1>3. DOMAIN buckets \subseteq Keys /\ now \in Nat
  BY LimiterAssumption DEF LimiterInv
<1>4. \A k \in DOMAIN buckets' : buckets'[k] \in Bucket /\ buckets'[k].last <= now
  BY <1>1, <1>2, <1>3
<1> QED BY <1>1, <1>3, <1>4

\* A new bucket is a bucket; so is the key's.
LEMMA BucketsAre ==
    ASSUME LimiterInv, NEW key \in Keys, NEW rule \in AllRules
    PROVE  BucketOf(key, rule) \in Bucket /\ BucketOf(key, rule).last <= now
<1>1. NewBucket(rule) \in Bucket /\ NewBucket(rule).last = now
  <2>1. /\ rule.rate \in 0 .. MaxRate /\ rule.burst \in 0 .. MaxBurst
        /\ MaxBurst \in Nat /\ Second \in Nat /\ MaxRate \in Nat
    BY MaxOfRules
  <2>2. rule.burst * Second \in 0 .. MaxBurst * Second
    BY <2>1, TimesGrows
  <2> QED BY <2>1, <2>2 DEF NewBucket, Bucket, LimiterInv
<1>2. now \in Nat
  BY LimiterAssumption DEF LimiterInv
<1> QED BY <1>1, <1>2 DEF BucketOf, LimiterInv

\* What a refill leaves of a key's bucket, whatever the parameters it goes by.
LEMMA RefillKeeps ==
    ASSUME LimiterInv, NEW key \in Keys, NEW rule \in AllRules, NEW b \in Bucket,
           b.tokens = BucketOf(key, rule).tokens, b.last = BucketOf(key, rule).last,
           key \notin DOMAIN buckets => b.burst = rule.burst
    PROVE  LET g == Refill(b)
           IN  /\ g \in Bucket /\ g.last = now /\ g.rate = b.rate /\ g.burst = b.burst
               /\ MaxRate * StaleAfter >= MaxBurst * Second =>
                    history[key].granted * Second + g.tokens
                      <= MaxBurst * Second + MaxRate * (now - history[key].since)
               /\ Standing(key, g) =>
                    /\ promise[key].cost <= promise[key].burst
                    /\ \A t \in now .. MaxTime : t >= promise[key].due =>
                         g.tokens + (t - now) * promise[key].rate >= promise[key].cost * Second
<1> DEFINE g == Refill(b)
           gain == (now - b.last) * b.rate
<1>1. /\ MaxRate \in Nat /\ MaxBurst \in Nat /\ Second \in Nat \ {0} /\ MaxTime \in Nat
      /\ now \in 0 .. MaxTime /\ b.last \in 0 .. MaxTime /\ b.last <= now
      /\ b.rate \in 0 .. MaxRate /\ b.burst \in 0 .. MaxBurst /\ b.tokens \in 0 .. MaxBurst * Second
  BY MaxOfRules, LimiterAssumption, BucketsAre DEF LimiterInv, Bucket
<1>2. MaxBurst * Second \in Nat /\ b.tokens \in Nat
  BY <1>1
<1>3. b \in [tokens : Nat, last : 0 .. MaxTime, rate : 0 .. MaxRate, burst : 0 .. MaxBurst]
  BY <1>2 DEF Bucket
<1>4. /\ g \in Bucket /\ g.last = now /\ g.rate = b.rate /\ g.burst = b.burst
      /\ gain \in Nat /\ gain <= MaxRate * (now - b.last)
      /\ g.tokens <= b.tokens + gain
      /\ g.tokens = b.tokens + gain \/ g.tokens = b.burst * Second
  BY <1>1, <1>3, Refilled
<1>5. g.tokens \in Nat /\ g.tokens <= MaxBurst * Second
  BY <1>2, <1>4 DEF Bucket
<1>6. history[key].since \in Nat /\ history[key].granted \in Nat
  BY LimiterAssumption DEF LimiterInv
<1> HIDE DEF g, gain
<1>7. ASSUME MaxRate * StaleAfter >= MaxBurst * Second
      PROVE  history[key].granted * Second + g.tokens
                <= MaxBurst * Second + MaxRate * (now - history[key].since)
  <2>1. Covered(key)
    BY <1>7 DEF LimiterInv
  <2> DEFINE G == history[key].granted * Second
             s == history[key].since
  <2>2. G \in Nat /\ s \in Nat
    BY <1>1, <1>6
  <2>3. CASE key \in DOMAIN buckets
    <3>1. b.tokens = buckets[key].tokens /\ b.last = buckets[key].last
      BY <2>3 DEF BucketOf
    <3>2. G + b.tokens <= MaxBurst * Second + MaxRate * (b.last - s)
      BY <2>1, <2>3, <3>1 DEF Covered
    <3>3. MaxRate * (b.last - s) + MaxRate * (now - b.last) = MaxRate * (now - s)
      BY <1>1, <2>2
    <3> HIDE DEF G, s
    <3>4. /\ MaxRate * (b.last - s) \in Int /\ MaxRate * (now - b.last) \in Int
          /\ MaxRate * (now - s) \in Int
      BY <1>1, <2>2
    <3>5. G + g.tokens <= MaxBurst * Second + MaxRate * (now - s)
      BY <1>2, <1>4, <1>5, <2>2, <3>2, <3>3, <3>4
    <3> QED BY <3>5 DEF G, s
  <2>4. CASE key \notin DOMAIN buckets
    <3>1. G <= MaxRate * (now - s)
      BY <2>1, <2>4 DEF Covered
    <3>2. MaxRate * (now - s) \in Int
      BY <1>1, <2>2
    <3> HIDE DEF G, s
    <3>3. G + g.tokens <= MaxBurst * Second + MaxRate * (now - s)
      BY <1>2, <1>5, <2>2, <3>1, <3>2
    <3> QED BY <3>3 DEF G, s
  <2> QED BY <2>3, <2>4
<1>8. ASSUME Standing(key, g)
      PROVE  /\ promise[key].cost <= promise[key].burst
             /\ \A t \in now .. MaxTime : t >= promise[key].due =>
                  g.tokens + (t - now) * promise[key].rate >= promise[key].cost * Second
  <2>1. PICK p : p = promise[key]
    OBVIOUS
  <2>2. /\ p # NoPromise /\ p \in Promise /\ p.cost <= p.burst
        /\ p.rate = b.rate /\ p.burst = b.burst
    BY <1>4, <1>8, <2>1 DEF Standing, LimiterInv, Honoured
  <2>3. p.cost \in Nat /\ p.rate \in Nat /\ p.burst \in Nat /\ p.due \in Nat
    BY <2>2 DEF Promise
  <2>4. p.cost * Second <= p.burst * Second
    BY <1>1, <2>2, <2>3, TimesGrows
  <2>5. ASSUME NEW t \in now .. MaxTime, t >= p.due
        PROVE  g.tokens + (t - now) * p.rate >= p.cost * Second
    <3>0. t - now \in Nat /\ t \in Nat /\ now \in Nat /\ b.last \in Nat
      BY <1>1
    <3>1. (t - now) * p.rate \in Nat
      BY <2>3, <3>0
    <3>2. g.tokens = b.burst * Second => g.tokens + (t - now) * p.rate >= p.cost * Second
      BY <1>1, <2>2, <2>3, <2>4, <3>1
    <3>3. CASE g.tokens = b.tokens + gain /\ key \notin DOMAIN buckets
      <4>1. b.last = now /\ b.tokens = rule.burst * Second
        BY <3>3 DEF BucketOf, NewBucket
      <4>2. gain = 0
        BY <1>1, <4>1 DEF gain
      <4>3. g.tokens = b.burst * Second
        BY <1>1, <1>2, <3>3, <4>1, <4>2
      <4> QED BY <3>2, <4>3
    <3>4. CASE g.tokens = b.tokens + gain /\ key \in DOMAIN buckets
      <4>1. b.tokens = buckets[key].tokens /\ b.last = buckets[key].last
        BY <3>4 DEF BucketOf
      <4>2. b.tokens + (t - b.last) * p.rate >= p.cost * Second
        BY <2>1, <2>2, <2>5, <3>4, <4>1 DEF LimiterInv, Honoured
      <4>3. gain + (t - now) * p.rate = (t - b.last) * p.rate
        BY <1>1, <2>2, <2>3, <3>0 DEF gain
      <4> QED BY <1>2, <1>4, <2>3, <3>0, <3>1, <3>4, <4>2, <4>3
    <3> QED BY <1>4, <3>2, <3>3, <3>4
  <2> QED BY <2>1, <2>2, <2>5
<1> QED BY <1>4, <1>7, <1>8 DEF g

\* The answer to a refused request is honoured at any later tick.
LEMMA AnswerHolds ==
    ASSUME LimiterInv, NEW g \in Bucket, g.last = now, g.rate > 0, NEW cost \in Costs,
           cost <= g.burst, g.tokens < cost * Second
    PROVE  LET p == Answer(g, cost)
           IN  /\ p \in Promise /\ p.rate = g.rate /\ p.burst = g.burst /\ p.cost = cost
               /\ \A t \in now .. MaxTime : t >= p.due =>
                    g.tokens + (t - now) * p.rate >= cost * Second
<1> DEFINE n == cost * Second - g.tokens
           w == n \div g.rate
           s == w \div Second
<1>1. /\ Second \in Nat \ {0} /\ MaxTime \in Nat /\ now \in Nat /\ cost \in Nat
      /\ g.rate \in Nat \ {0} /\ g.burst \in Nat /\ g.tokens \in Nat
  <2>1. MaxRate \in Nat /\ MaxBurst \in Nat /\ Second \in Nat \ {0} /\ MaxBurst * Second \in Nat
    BY MaxOfRules
  <2> QED BY <2>1, LimiterAssumption DEF LimiterInv, Bucket
<1>2. n \in Nat /\ cost * Second \in Nat
  BY <1>1
<1>3. w \in Nat /\ n < (w + 1) * g.rate
  <2> HIDE DEF n
  <2> QED BY <1>1, <1>2, DivBounds
<1>4. s \in Nat /\ w < (s + 1) * Second
  <2> HIDE DEF w
  <2> QED BY <1>1, <1>3, DivBounds
<1>5. Answer(g, cost) = [due |-> now + (s + 1) * Second, cost |-> cost,
                         rate |-> g.rate, burst |-> g.burst]
  BY DEF Answer, RetryAfter, Wait
<1> HIDE DEF n, w, s
<1>6. (s + 1) * Second \in Nat
  BY <1>1, <1>4
<1>7. ASSUME NEW t \in now .. MaxTime, t >= now + (s + 1) * Second
      PROVE  g.tokens + (t - now) * g.rate >= cost * Second
  <2>1. t - now \in Nat /\ w + 1 \in Nat /\ w + 1 <= t - now
    BY <1>1, <1>3, <1>4, <1>6, <1>7
  <2>2. (w + 1) * g.rate <= (t - now) * g.rate
    BY <1>1, <2>1, TimesGrows
  <2>3. (w + 1) * g.rate \in Nat /\ (t - now) * g.rate \in Nat
    BY <1>1, <2>1
  <2>4. n <= (t - now) * g.rate
    BY <1>2, <1>3, <2>2, <2>3
  <2> QED BY <1>1, <1>2, <2>3, <2>4 DEF n
<1> QED BY <1>1, <1>5, <1>6, <1>7 DEF Promise

LEMMA NoPromiseIsNone == NoPromise \notin Promise
BY DEF NoPromise, Promise

LEMMA CallsAre ==
    ASSUME LimiterInv, NEW c \in Clients, call[c] # NoCall
    PROVE  call[c] \in Call /\ call[c].key \in Keys /\ call[c].rule \in AllRules
           /\ call[c].cost \in Costs /\ call[c].cost \in Nat
BY LimiterAssumption DEF LimiterInv, Call

\* A request takes its tokens, or is refused and perhaps answered.
LEMMA ChargeKeeps ==
    ASSUME LimiterInv, NEW c \in Clients, Charge(c)
    PROVE  LimiterInv'
<1>1. PICK key \in Keys, rule \in AllRules, cost \in Costs :
        key = call[c].key /\ rule = call[c].rule /\ cost = call[c].cost
  BY CallsAre DEF Charge
<1> DEFINE old == BucketOf(key, rule)
           bb == [old EXCEPT !.rate = rule.rate, !.burst = rule.burst]
<1>2. PICK g : g = Refill(bb)
  OBVIOUS
<1>3. /\ Grant(key, g, cost) \/ Refuse(key, g, cost, rule)
      /\ call' = [call EXCEPT ![c] = NoCall] /\ UNCHANGED <<rules, now>>
  BY <1>1, <1>2 DEF Charge
<1>4. bb \in Bucket /\ bb.tokens = old.tokens /\ bb.last = old.last /\ bb.burst = rule.burst
  <2>1. old \in Bucket /\ rule.rate \in 0 .. MaxRate /\ rule.burst \in 0 .. MaxBurst
    BY BucketsAre, MaxOfRules
  <2> QED BY <2>1 DEF Bucket
<1>5. /\ g \in Bucket /\ g.last = now
      /\ MaxRate * StaleAfter >= MaxBurst * Second =>
           history[key].granted * Second + g.tokens
             <= MaxBurst * Second + MaxRate * (now - history[key].since)
      /\ Standing(key, g) =>
           /\ promise[key].cost <= promise[key].burst
           /\ \A t \in now .. MaxTime : t >= promise[key].due =>
                g.tokens + (t - now) * promise[key].rate >= promise[key].cost * Second
  <2> HIDE DEF bb
  <2> QED BY <1>2, <1>4, RefillKeeps
<1> HIDE DEF bb
<1>6. /\ MaxRate \in Nat /\ MaxBurst \in Nat /\ Second \in Nat \ {0} /\ MaxTime \in Nat
      /\ now \in Nat /\ cost \in Nat /\ g.tokens \in 0 .. MaxBurst * Second
      /\ history[key].since \in Nat /\ history[key].granted \in Nat
      /\ MaxBurst * Second \in Nat
  <2>1. /\ MaxRate \in Nat /\ MaxBurst \in Nat /\ Second \in Nat \ {0} /\ MaxBurst * Second \in Nat
    BY MaxOfRules
  <2> QED BY <1>5, <2>1, LimiterAssumption DEF LimiterInv, Bucket
<1>7. call' \in [Clients -> {NoCall} \cup Call] /\ rules' \subseteq Rules /\ now' = now
  BY <1>3 DEF LimiterInv
<1>8. CASE Grant(key, g, cost)
  <2>1. PICK b : b = [g EXCEPT !.tokens = g.tokens - cost * Second]
    OBVIOUS
  <2>2. /\ g.tokens >= cost * Second /\ buckets' = Store(key, b)
        /\ history' = [history EXCEPT ![key].granted = @ + cost]
        /\ promise' = [promise EXCEPT ![key] = NoPromise]
    BY <1>8, <2>1 DEF Grant
  <2>3. cost * Second \in Nat /\ g.tokens - cost * Second \in 0 .. MaxBurst * Second
    BY <1>6, <2>2
  <2>4. b \in Bucket /\ b.last = now /\ b.tokens = g.tokens - cost * Second
    BY <1>5, <2>1, <2>3 DEF Bucket
  <2>5. /\ DOMAIN buckets' \subseteq Keys /\ buckets' \in [DOMAIN buckets' -> Bucket]
        /\ key \in DOMAIN buckets' /\ buckets'[key] = b
        /\ \A k \in DOMAIN buckets' : buckets'[k].last <= now
        /\ \A k \in Keys \ {key} :
             /\ k \in DOMAIN buckets' <=> k \in DOMAIN buckets
             /\ k \in DOMAIN buckets => buckets'[k] = buckets[k]
    BY <2>2, <2>4, BucketStored
  <2>6. /\ history' \in [Keys -> [since : 0 .. MaxTime, granted : Nat]]
        /\ history'[key].granted = history[key].granted + cost
        /\ history'[key].since = history[key].since
        /\ \A k \in Keys \ {key} : history'[k] = history[k]
    BY <1>6, <2>2 DEF LimiterInv
  <2>7. /\ promise' \in [Keys -> {NoPromise} \cup Promise] /\ promise'[key] = NoPromise
        /\ \A k \in Keys \ {key} : promise'[k] = promise[k]
    BY <2>2 DEF LimiterInv
  <2>8. Honoured(key)'
    BY <2>7 DEF Honoured
  <2>9. ASSUME MaxRate * StaleAfter >= MaxBurst * Second PROVE Covered(key)'
    <3> DEFINE X == MaxRate * (now - history[key].since)
    <3>1. X \in Int /\ history[key].granted * Second \in Nat
      BY <1>6
    <3>2. (history[key].granted + cost) * Second
            = history[key].granted * Second + cost * Second
      BY <1>6
    <3>3. history[key].granted * Second + g.tokens <= MaxBurst * Second + X
      BY <1>5, <2>9
    <3> HIDE DEF X
    <3>4. (history[key].granted + cost) * Second + b.tokens <= MaxBurst * Second + X
      BY <1>6, <2>3, <2>4, <3>1, <3>2, <3>3
    <3> QED BY <1>7, <2>4, <2>5, <2>6, <3>4 DEF Covered, X
  <2>10. \A k \in Keys \ {key} : Untouched(k)
    BY <2>5, <2>6, <2>7 DEF Untouched
  <2> QED BY <1>7, <2>5, <2>6, <2>7, <2>8, <2>9, <2>10, OneKeyMoves
<1>9. CASE Refuse(key, g, cost, rule)
  <2>1. PICK p : p = IF Standing(key, g) THEN promise[key]
                     ELSE IF g.rate > 0 /\ cost <= g.burst /\ Refused(g, cost, rule)
                     THEN Answer(g, cost)
                     ELSE NoPromise
    OBVIOUS
  <2>2. /\ g.tokens < cost * Second /\ buckets' = Store(key, g) /\ history' = history
        /\ promise' = [promise EXCEPT ![key] = p]
    BY <1>9, <2>1 DEF Refuse
  <2>3. /\ p \in {NoPromise} \cup Promise
        /\ p # NoPromise =>
             /\ p.cost <= p.burst /\ g.rate = p.rate /\ g.burst = p.burst
             /\ \A t \in now .. MaxTime : t >= p.due =>
                  g.tokens + (t - now) * p.rate >= p.cost * Second
    <3>1. CASE Standing(key, g)
      BY <1>5, <2>1, <3>1 DEF Standing, LimiterInv
    <3>2. CASE ~Standing(key, g) /\ g.rate > 0 /\ cost <= g.burst /\ p = Answer(g, cost)
      BY <1>5, <2>2, <3>2, AnswerHolds
    <3>3. CASE p = NoPromise
      BY <3>3
    <3> QED BY <2>1, <3>1, <3>2, <3>3
  <2>4. /\ DOMAIN buckets' \subseteq Keys /\ buckets' \in [DOMAIN buckets' -> Bucket]
        /\ key \in DOMAIN buckets' /\ buckets'[key] = g
        /\ \A k \in DOMAIN buckets' : buckets'[k].last <= now
        /\ \A k \in Keys \ {key} :
             /\ k \in DOMAIN buckets' <=> k \in DOMAIN buckets
             /\ k \in DOMAIN buckets => buckets'[k] = buckets[k]
    BY <1>5, <2>2, BucketStored
  <2>5. /\ promise' \in [Keys -> {NoPromise} \cup Promise] /\ promise'[key] = p
        /\ \A k \in Keys \ {key} : promise'[k] = promise[k]
    BY <2>2, <2>3 DEF LimiterInv
  <2>6. Honoured(key)'
    BY <1>5, <1>7, <2>3, <2>4, <2>5 DEF Honoured
  <2>7. ASSUME MaxRate * StaleAfter >= MaxBurst * Second PROVE Covered(key)'
    BY <1>5, <1>7, <2>2, <2>4, <2>7 DEF Covered
  <2>8. \A k \in Keys \ {key} : Untouched(k)
    BY <2>2, <2>4, <2>5 DEF Untouched
  <2>9. history' \in [Keys -> [since : 0 .. MaxTime, granted : Nat]]
    BY <2>2 DEF LimiterInv
  <2> QED BY <1>7, <2>4, <2>5, <2>6, <2>7, <2>8, <2>9, OneKeyMoves
<1> QED BY <1>3, <1>8, <1>9

\* A bucket is refilled by its own parameters, or made.
LEMMA LookKeeps ==
    ASSUME LimiterInv, NEW key \in Keys, NEW rule \in AllRules, UNCHANGED <<rules, now, history>>,
           buckets' = Store(key, Refill(BucketOf(key, rule))),
           call' \in [Clients -> {NoCall} \cup Call],
           promise' = [promise EXCEPT ![key] =
                         IF Standing(key, BucketOf(key, rule)) THEN @ ELSE NoPromise]
    PROVE  LimiterInv'
<1>1. PICK b, g : b = BucketOf(key, rule) /\ g = Refill(b)
  OBVIOUS
<1>2. b \in Bucket /\ (key \notin DOMAIN buckets => b.burst = rule.burst)
  BY <1>1, BucketsAre DEF BucketOf, NewBucket
<1>3. /\ g \in Bucket /\ g.last = now /\ g.rate = b.rate /\ g.burst = b.burst
      /\ MaxRate * StaleAfter >= MaxBurst * Second =>
           history[key].granted * Second + g.tokens
             <= MaxBurst * Second + MaxRate * (now - history[key].since)
      /\ Standing(key, g) =>
           /\ promise[key].cost <= promise[key].burst
           /\ \A t \in now .. MaxTime : t >= promise[key].due =>
                g.tokens + (t - now) * promise[key].rate >= promise[key].cost * Second
  BY <1>1, <1>2, RefillKeeps
<1>4. Standing(key, g) <=> Standing(key, b)
  BY <1>3 DEF Standing
<1>5. PICK p : p = IF Standing(key, g) THEN promise[key] ELSE NoPromise
  OBVIOUS
<1>6. promise' = [promise EXCEPT ![key] = p]
  BY <1>1, <1>4, <1>5
<1>7. /\ p \in {NoPromise} \cup Promise
      /\ p # NoPromise =>
           /\ p.cost <= p.burst /\ g.rate = p.rate /\ g.burst = p.burst
           /\ \A t \in now .. MaxTime : t >= p.due =>
                g.tokens + (t - now) * p.rate >= p.cost * Second
  BY <1>3, <1>5 DEF Standing, LimiterInv
<1>8. /\ DOMAIN buckets' \subseteq Keys /\ buckets' \in [DOMAIN buckets' -> Bucket]
      /\ key \in DOMAIN buckets' /\ buckets'[key] = g
      /\ \A k \in DOMAIN buckets' : buckets'[k].last <= now
      /\ \A k \in Keys \ {key} :
           /\ k \in DOMAIN buckets' <=> k \in DOMAIN buckets
           /\ k \in DOMAIN buckets => buckets'[k] = buckets[k]
  BY <1>1, <1>3, BucketStored
<1>9. /\ promise' \in [Keys -> {NoPromise} \cup Promise] /\ promise'[key] = p
      /\ \A k \in Keys \ {key} : promise'[k] = promise[k]
  BY <1>6, <1>7 DEF LimiterInv
<1>10. Honoured(key)'
  BY <1>3, <1>7, <1>8, <1>9 DEF Honoured
<1>11. ASSUME MaxRate * StaleAfter >= MaxBurst * Second PROVE Covered(key)'
  BY <1>3, <1>8, <1>11 DEF Covered
<1>12. \A k \in Keys \ {key} : Untouched(k)
  BY <1>8, <1>9 DEF Untouched
<1>13. history' \in [Keys -> [since : 0 .. MaxTime, granted : Nat]] /\ rules' \subseteq Rules
  BY DEF LimiterInv
<1> QED BY <1>8, <1>9, <1>10, <1>11, <1>12, <1>13, OneKeyMoves

LEMMA ReserveKeeps ==
    ASSUME LimiterInv, NEW c \in Clients, Reserve(c)
    PROVE  LimiterInv'
<1>1. PICK key \in Keys, rule \in AllRules : key = call[c].key /\ rule = call[c].rule
  BY CallsAre DEF Reserve
<1>2. call' \in [Clients -> {NoCall} \cup Call]
  BY DEF Reserve, LimiterInv
<1> QED BY <1>1, <1>2, LookKeeps DEF Reserve

LEMMA GetStateKeeps ==
    ASSUME LimiterInv, NEW key \in Keys, GetState(key)
    PROVE  LimiterInv'
<1>1. Default \in AllRules
  BY DEF AllRules
<1>2. BucketOf(key, Default) = buckets[key] /\ key \in DOMAIN buckets
  BY DEF GetState, BucketOf
<1>3. promise[key] # NoPromise => Standing(key, buckets[key])
  BY <1>2 DEF Standing, LimiterInv, Honoured
<1>4. promise' = [promise EXCEPT ![key] = IF Standing(key, buckets[key]) THEN @ ELSE NoPromise]
  <2>1. promise = [promise EXCEPT ![key] = promise[key]]
    BY DEF LimiterInv
  <2>2. promise[key] = IF Standing(key, buckets[key]) THEN promise[key] ELSE NoPromise
    BY <1>3
  <2> QED BY <2>1, <2>2 DEF GetState
<1>5. call' \in [Clients -> {NoCall} \cup Call]
  BY DEF GetState, LimiterInv
<1> QED BY <1>1, <1>2, <1>4, <1>5, LookKeeps DEF GetState

LEMMA ResetKeeps ==
    ASSUME LimiterInv, NEW key \in Keys, Reset(key)
    PROVE  LimiterInv'
<1>1. /\ DOMAIN buckets' = DOMAIN buckets \ {key}
      /\ \A k \in DOMAIN buckets' : buckets'[k] = buckets[k]
      /\ buckets' \in [DOMAIN buckets' -> Bucket]
  BY DEF Reset, LimiterInv
<1>2. /\ history' \in [Keys -> [since : 0 .. MaxTime, granted : Nat]]
      /\ history'[key] = [since |-> now, granted |-> 0]
      /\ \A k \in Keys \ {key} : history'[k] = history[k]
  BY DEF Reset, LimiterInv
<1>3. /\ promise' \in [Keys -> {NoPromise} \cup Promise] /\ promise'[key] = NoPromise
      /\ \A k \in Keys \ {key} : promise'[k] = promise[k]
  BY DEF Reset, LimiterInv
<1>4. Honoured(key)'
  BY <1>3 DEF Honoured
<1>5. now \in Nat /\ MaxRate \in Nat /\ Second \in Nat /\ now' = now
  BY LimiterAssumption, MaxOfRules DEF LimiterInv, Reset
<1>6. Covered(key)'
  <2>1. 0 * Second <= MaxRate * (now - now)
    BY <1>5
  <2> QED BY <1>1, <1>2, <1>5, <2>1 DEF Covered
<1>7. \A k \in Keys \ {key} : Untouched(k)
  BY <1>1, <1>2, <1>3 DEF Untouched
<1>8. /\ DOMAIN buckets' \subseteq Keys /\ \A k \in DOMAIN buckets' : buckets'[k].last <= now
      /\ call' \in [Clients -> {NoCall} \cup Call] /\ rules' \subseteq Rules
  BY <1>1 DEF LimiterInv, Reset
<1> QED BY <1>1, <1>2, <1>3, <1>4, <1>5, <1>6, <1>7, <1>8, OneKeyMoves

\* A bucket that is dropped would be full, so that the next one, which is,
\* grants nothing too much.
LEMMA DropKeeps ==
    ASSUME LimiterInv, Cleanup
    PROVE  LimiterInv'
<1>1. /\ DOMAIN buckets' = {k \in DOMAIN buckets : now - buckets[k].last < StaleAfter}
      /\ \A k \in DOMAIN buckets' : buckets'[k] = buckets[k]
      /\ buckets' \in [DOMAIN buckets' -> Bucket]
      /\ UNCHANGED <<rules, call, now, history, promise>>
  BY DEF Cleanup, LimiterInv
<1>2. \A k \in Keys : Honoured(k)'
  BY <1>1 DEF LimiterInv, Honoured
<1>3. ASSUME MaxRate * StaleAfter >= MaxBurst * Second, NEW k \in Keys
      PROVE  Covered(k)'
  <2>1. Covered(k)
    BY <1>3 DEF LimiterInv
  <2>2. CASE k \in DOMAIN buckets' \/ k \notin DOMAIN buckets
    BY <1>1, <2>1, <2>2 DEF Covered
  <2>3. CASE k \in DOMAIN buckets /\ k \notin DOMAIN buckets'
    <3> DEFINE G == history[k].granted * Second
               s == history[k].since
               last == buckets[k].last
    <3>1. /\ MaxRate \in Nat /\ MaxBurst \in Nat /\ Second \in Nat /\ StaleAfter \in Nat
          /\ now \in Nat /\ last \in Nat /\ last <= now /\ buckets[k].tokens \in Nat
          /\ s \in Nat /\ G \in Nat /\ MaxBurst * Second \in Nat
      <4>1. MaxRate \in Nat /\ MaxBurst \in Nat /\ Second \in Nat /\ MaxBurst * Second \in Nat
        BY MaxOfRules
      <4>2. history[k].granted \in Nat
        BY DEF LimiterInv
      <4> QED BY <2>3, <4>1, <4>2, LimiterAssumption DEF LimiterInv, Bucket
    <3>2. G + buckets[k].tokens <= MaxBurst * Second + MaxRate * (last - s)
      BY <2>1, <2>3 DEF Covered
    <3>3. StaleAfter <= now - last /\ now - last \in Nat
      BY <1>1, <2>3, <3>1
    <3> HIDE DEF G, s, last
    <3>4. StaleAfter * MaxRate <= (now - last) * MaxRate
      BY <3>1, <3>3, TimesGrows
    <3>5. /\ MaxRate * (last - s) + (now - last) * MaxRate = MaxRate * (now - s)
          /\ StaleAfter * MaxRate = MaxRate * StaleAfter
          /\ MaxRate * (last - s) \in Int /\ (now - last) * MaxRate \in Int
          /\ MaxRate * (now - s) \in Int /\ MaxRate * StaleAfter \in Int
      BY <3>1
    <3>6. G <= MaxRate * (now - s)
      BY <1>3, <3>1, <3>2, <3>4, <3>5
    <3> QED BY <1>1, <2>3, <3>6 DEF Covered, G, s
  <2> QED BY <2>2, <2>3
<1> QED BY <1>1, <1>2, <1>3 DEF LimiterInv, Bucket

LEMMA TimeKeeps ==
    ASSUME LimiterInv, Tick
    PROVE  LimiterInv'
<1>1. /\ now' = now + 1 /\ now' \in 0 .. MaxTime /\ now \in Nat /\ MaxTime \in Nat
      /\ UNCHANGED <<rules, buckets, call, history, promise>>
  BY LimiterAssumption DEF Tick, LimiterInv
<1>2. \A k \in DOMAIN buckets : buckets[k].last \in Nat /\ buckets[k].last <= now'
  BY <1>1 DEF LimiterInv, Bucket
<1>3. ASSUME NEW k \in Keys PROVE Honoured(k)'
  BY <1>1 DEF LimiterInv, Honoured
<1>4. ASSUME MaxRate * StaleAfter >= MaxBurst * Second, NEW k \in Keys
      PROVE  Covered(k)'
  <2>1. Covered(k)
    BY <1>4 DEF LimiterInv
  <2>2. MaxRate \in Nat /\ history[k].since \in Nat /\ history[k].granted * Second \in Nat
    <3>1. history[k].granted \in Nat /\ history[k].since \in Nat
      BY LimiterAssumption DEF LimiterInv
    <3> QED BY <3>1, MaxOfRules
  <2>3. MaxRate * (now + 1 - history[k].since) = MaxRate * (now - history[k].since) + MaxRate
    BY <1>1, <2>2
  <2>4. MaxRate * (now - history[k].since) \in Int
    BY <1>1, <2>2
  <2> QED BY <1>1, <2>1, <2>2, <2>3, <2>4 DEF Covered
<1> QED BY <1>1, <1>2, <1>3, <1>4 DEF LimiterInv, Bucket

LEMMA RulesKeep ==
    ASSUME LimiterInv, UNCHANGED <<buckets, now, history, promise>>, rules' \subseteq Rules,
           call' \in [Clients -> {NoCall} \cup Call]
    PROVE  LimiterInv'
<1>1. \A k \in Keys : Honoured(k)' = Honoured(k) /\ Covered(k)' = Covered(k)
  BY KeyRests DEF Untouched
<1> QED BY <1>1 DEF LimiterInv, Bucket

LEMMA LookupKeeps ==
    ASSUME LimiterInv, NEW c \in Clients, NEW o \in {"check", "reserve"}, NEW key \in Keys,
           NEW cost \in Costs, Lookup(c, o, key, cost)
    PROVE  LimiterInv'
<1>1. PICK rule \in IF Matching(key) = {} THEN {Default} ELSE Matching(key) :
        call' = [call EXCEPT ![c] = [op |-> o, key |-> key, cost |-> cost, rule |-> rule]]
  BY DEF Lookup
<1>2. rule \in AllRules
  BY <1>1 DEF Matching, AllRules, LimiterInv
<1>3. [op |-> o, key |-> key, cost |-> cost, rule |-> rule] \in Call
  BY <1>2 DEF Call
<1>4. call' \in [Clients -> {NoCall} \cup Call]
  BY <1>1, <1>3 DEF LimiterInv
<1> QED BY <1>4, RulesKeep DEF Lookup, LimiterInv

LEMMA LimiterKeeps ==
    ASSUME LimiterInv, [Next]_vars
    PROVE  LimiterInv'
<1>1. CASE UNCHANGED vars
  BY <1>1, RulesKeep DEF vars, LimiterInv
<1>2. ASSUME NEW rule \in Rules, AddRule(rule) \/ RemoveRule(rule) PROVE LimiterInv'
  BY <1>2, RulesKeep DEF AddRule, RemoveRule, LimiterInv
<1> QED BY <1>1, <1>2, LookupKeeps, ChargeKeeps, ReserveKeeps, GetStateKeeps, ResetKeeps,
           DropKeeps, TimeKeeps DEF Next

LEMMA LimiterStarts == Init => LimiterInv
<1> SUFFICES ASSUME Init PROVE LimiterInv
  OBVIOUS
<1>1. /\ DOMAIN buckets = {} /\ buckets \in [DOMAIN buckets -> Bucket]
      /\ now = 0 /\ MaxTime \in Nat
  BY LimiterAssumption DEF Init
<1>2. \A k \in Keys : history[k].granted = 0 /\ history[k].since = 0 /\ promise[k] = NoPromise
  BY DEF Init
<1>3. \A k \in Keys : Honoured(k)
  BY <1>2 DEF Honoured
<1>4. 0 * Second <= MaxRate * (0 - 0)
  BY MaxOfRules
<1>5. \A k \in Keys : Covered(k)
  BY <1>1, <1>2, <1>4 DEF Covered
<1>6. /\ rules \subseteq Rules /\ call \in [Clients -> {NoCall} \cup Call]
      /\ history \in [Keys -> [since : 0 .. MaxTime, granted : Nat]]
      /\ promise \in [Keys -> {NoPromise} \cup Promise]
  BY <1>1 DEF Init
<1> QED BY <1>1, <1>3, <1>5, <1>6 DEF LimiterInv

\* Whatever rules come and go between a lookup and its charge, and whatever
\* the cleanup forgets, a key is granted at most one burst and the refill.
THEOREM GrantsAreBounded == CPSpec => []GrantsBounded
<1>1. LimiterInv => GrantsBounded
  <2> SUFFICES ASSUME LimiterInv, MaxRate * StaleAfter >= MaxBurst * Second, NEW k \in Keys
               PROVE  history[k].granted * Second
                        <= MaxBurst * Second + MaxRate * (now - history[k].since)
    BY DEF GrantsBounded
  <2> DEFINE G == history[k].granted * Second
             s == history[k].since
  <2>1. /\ MaxRate \in Nat /\ now \in Nat /\ s \in Nat /\ G \in Nat /\ MaxBurst * Second \in Nat
    <3>1. history[k].granted \in Nat /\ s \in Nat /\ now \in Nat
      BY LimiterAssumption DEF LimiterInv
    <3>2. MaxRate \in Nat /\ Second \in Nat /\ MaxBurst * Second \in Nat
      BY MaxOfRules
    <3> QED BY <3>1, <3>2
  <2>2. Covered(k)
    BY DEF LimiterInv
  <2>3. CASE k \in DOMAIN buckets
    <3>1. PICK last, tokens : last = buckets[k].last /\ tokens = buckets[k].tokens
      OBVIOUS
    <3>2. last \in Nat /\ last <= now /\ tokens \in Nat
      BY <2>1, <2>3, <3>1, LimiterAssumption DEF LimiterInv, Bucket
    <3>3. G + tokens <= MaxBurst * Second + MaxRate * (last - s)
      BY <2>2, <2>3, <3>1 DEF Covered
    <3> HIDE DEF G, s
    <3>4. /\ MaxRate * (last - s) + MaxRate * (now - last) = MaxRate * (now - s)
          /\ MaxRate * (now - last) \in Nat
          /\ MaxRate * (last - s) \in Int /\ MaxRate * (now - s) \in Int
      BY <2>1, <3>2
    <3>5. G <= MaxBurst * Second + MaxRate * (now - s)
      BY <2>1, <3>2, <3>3, <3>4
    <3> QED BY <3>5 DEF G, s
  <2>4. CASE k \notin DOMAIN buckets
    <3>1. G <= MaxRate * (now - s)
      BY <2>2, <2>4 DEF Covered
    <3>2. MaxRate * (now - s) \in Int
      BY <2>1
    <3> HIDE DEF G, s
    <3>3. G <= MaxBurst * Second + MaxRate * (now - s)
      BY <2>1, <3>1, <3>2
    <3> QED BY <3>3 DEF G, s
  <2> QED BY <2>3, <2>4
<1>2. LimiterInv /\ [Next]_vars => LimiterInv'
  BY LimiterKeeps
<1> QED BY Starts, Steps, LimiterStarts, <1>1, <1>2, PTL DEF CPSpec

\* A client that waits as long as it was told finds its tokens, in spite of
\* the two truncations.
THEOREM WaitsAreEnough == CPSpec => []RetryAfterHonoured
<1>1. LimiterInv => RetryAfterHonoured
  <2> SUFFICES ASSUME LimiterInv, NEW k \in Keys, promise[k] # NoPromise, now >= promise[k].due
               PROVE  Available(k) >= promise[k].cost * Second
    BY DEF RetryAfterHonoured
  <2>1. PICK p : p = promise[k]
    OBVIOUS
  <2>2. /\ Honoured(k) /\ p.cost \in Nat /\ p.rate \in Nat /\ p.burst \in Nat /\ p.due \in Nat
        /\ Second \in Nat /\ now \in Nat /\ now \in now .. MaxTime
    BY <2>1, LimiterAssumption DEF LimiterInv, Promise
  <2>3. p.cost * Second \in Nat /\ p.burst * Second \in Nat /\ p.cost * Second <= p.burst * Second
    <3>1. p.cost <= p.burst
      BY <2>1, <2>2 DEF Honoured
    <3>2. PICK x, y \in Nat : x = p.cost /\ y = p.burst
      BY <2>2
    <3>3. x * Second \in Nat /\ x * Second <= y * Second
      BY <2>2, <3>1, <3>2, TimesGrows
    <3>4. y * Second \in Nat
      BY <2>2
    <3> QED BY <3>2, <3>3, <3>4
  <2>4. CASE k \in DOMAIN buckets
    <3>1. PICK b : b = buckets[k]
      OBVIOUS
    <3>2. b.tokens \in Nat /\ b.last \in Nat /\ b.last <= now
      <4>1. MaxBurst * Second \in Nat
        BY MaxOfRules
      <4> QED BY <2>4, <3>1, <4>1, LimiterAssumption DEF LimiterInv, Bucket
    <3>3. b.rate = p.rate /\ b.burst = p.burst
          /\ b.tokens + (now - b.last) * p.rate >= p.cost * Second
      BY <2>1, <2>2, <2>4, <3>1 DEF Honoured
    <3>4. (now - b.last) * p.rate \in Nat
      BY <2>2, <3>2
    <3>5. Min({b.tokens + (now - b.last) * p.rate, p.burst * Second}) >= p.cost * Second
      BY <2>3, <3>2, <3>3, <3>4, MinOfTwo
    <3> QED BY <2>1, <2>4, <3>1, <3>3, <3>5 DEF Available
  <2>5. CASE k \notin DOMAIN buckets
    BY <2>1, <2>3, <2>5 DEF Available
  <2> QED BY <2>4, <2>5
<1>2. LimiterInv /\ [Next]_vars => LimiterInv'
  BY LimiterKeeps
<1> QED BY Starts, Steps, LimiterStarts, <1>1, <1>2, PTL DEF CPSpec
=============================================================================
