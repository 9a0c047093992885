-------------------------------- MODULE Kms ---------------------------------
(* The key management client (kms/mod.rs): the secrets kept in memory and  *)
(* the list of master key versions, each behind a lock that is released    *)
(* between the steps of a method.  A value is abstracted to the number of  *)
(* backend prefixes ("file:", "vault:"...) its text begins with.           *)
EXTENDS Naturals, Sequences

CONSTANTS Clients, Names,
          Probe,        \* "__health_check__", the key of the health check
          MaxPrefix,    \* bound on the leading prefixes of a value
          MaxVersions   \* bound on the rotations

VARIABLES secrets,      \* key -> the stored secret
          key_versions, \* sequence of key versions
          kms           \* per client: the method being executed

kmsVars == <<secrets, key_versions, kms>>

SecretKeys == Names \cup {Probe}

Secret == [ciphertext : 1..(MaxPrefix + 1), version : 1..MaxVersions]

KmsTypeOK ==
    /\ DOMAIN secrets \subseteq SecretKeys
    /\ \A k \in DOMAIN secrets : secrets[k] \in Secret
    /\ key_versions \in Seq([version : 1..MaxVersions, active : BOOLEAN])

Resting == [op |-> "none", answer |-> "-", value |-> 0]

\* from_config: one active version.
Init ==
    /\ secrets = [k \in {} |-> k]
    /\ key_versions = << [version |-> 1, active |-> TRUE] >>
    /\ kms = [c \in Clients |-> Resting]

\* perform_encrypt: the backend's prefix is put in front of the value.
perform_encrypt(value) == value + 1

\* decrypt_secret: trim_start_matches removes every leading prefix, those
\* of the value itself included.
decrypt_secret(secret) == secret.ciphertext - secret.ciphertext

\* The highest of the active versions.
get_current_key_version ==
    LET active == {i \in DOMAIN key_versions : key_versions[i].active}
    IN IF active = {} THEN 1
       ELSE LET i == CHOOSE i \in active :
                        \A j \in active : key_versions[j].version <= key_versions[i].version
            IN key_versions[i].version

Step(c, r) == kms' = [kms EXCEPT ![c] = r]

Stop(c, a) == Step(c, [op |-> "none", answer |-> a, value |-> 0])

\* encrypt: the value is encrypted and the version read ...
EncryptBegin(c) ==
    /\ kms[c].op = "none"
    /\ \E k \in SecretKeys, v \in 0..MaxPrefix :
         Step(c, [op |-> IF k = Probe THEN "probe" ELSE "encrypt", key |-> k,
                  secret |-> [ciphertext |-> perform_encrypt(v),
                              version |-> get_current_key_version]])
    /\ UNCHANGED <<secrets, key_versions>>

\* ... and the secret stored under its key.
EncryptStore(c) ==
    /\ kms[c].op \in {"encrypt", "probe"}
    /\ secrets' = [k \in DOMAIN secrets \cup {kms[c].key} |->
                     IF k = kms[c].key THEN kms[c].secret ELSE secrets[k]]
    /\ IF kms[c].op = "probe"
       THEN Step(c, [op |-> "probed", key |-> Probe])
       ELSE Stop(c, "ok")
    /\ UNCHANGED key_versions

Decrypt(c) ==
    /\ kms[c].op = "none"
    /\ \E k \in Names :
         IF k \in DOMAIN secrets
         THEN Step(c, [op |-> "none", answer |-> "ok", value |-> decrypt_secret(secrets[k])])
         ELSE Stop(c, "not_found")
    /\ UNCHANGED <<secrets, key_versions>>

Drop(k) == secrets' = [x \in DOMAIN secrets \ {k} |-> secrets[x]]

delete(c) ==
    /\ kms[c].op = "none"
    /\ \E k \in Names : Drop(k) /\ Stop(c, IF k \in DOMAIN secrets THEN "ok" ELSE "not_found")
    /\ UNCHANGED key_versions

\* health_check, after its encrypt: the shared key is read back, then
\* removed; another check may have removed it already.
ProbeRead(c) ==
    /\ kms[c].op = "probed"
    /\ IF Probe \in DOMAIN secrets
       THEN Step(c, [op |-> "clean", key |-> Probe])
       ELSE Stop(c, "not_found")
    /\ UNCHANGED <<secrets, key_versions>>

ProbeClean(c) ==
    /\ kms[c].op = "clean"
    /\ Drop(Probe)
    /\ Stop(c, IF Probe \in DOMAIN secrets THEN "ok" ELSE "not_found")
    /\ UNCHANGED key_versions

\* rotate_master_key: the next version is the length of the list, read under
\* a lock that is then dropped ...
RotateRead(c) ==
    /\ kms[c].op = "none"
    /\ Len(key_versions) < MaxVersions
    /\ Step(c, [op |-> "rotate", version |-> Len(key_versions) + 1])
    /\ UNCHANGED <<secrets, key_versions>>

\* Mutant: only the version before the new one is deprecated.
deprecate_previous(new) ==
    [i \in DOMAIN key_versions |->
        IF key_versions[i].version = new - 1
        THEN [key_versions[i] EXCEPT !.active = FALSE] ELSE key_versions[i]]

\* Every active version is deprecated, those of rotations that ran in
\* between included.
deprecate(new) ==
    [i \in DOMAIN key_versions |-> [key_versions[i] EXCEPT !.active = FALSE]]

\* ... and under the write lock the old versions are deprecated and the new
\* one appended; nothing is encrypted again.
RotatePush(c) ==
    /\ kms[c].op = "rotate"
    /\ Len(key_versions) < MaxVersions
    /\ key_versions' = Append(deprecate(kms[c].version),
                              [version |-> kms[c].version, active |-> TRUE])
    /\ Stop(c, "ok")
    /\ UNCHANGED secrets

Next ==
    \E c \in Clients :
        \/ EncryptBegin(c) \/ EncryptStore(c) \/ Decrypt(c) \/ delete(c)
        \/ ProbeRead(c) \/ ProbeClean(c) \/ RotateRead(c) \/ RotatePush(c)

KmsSpec == Init /\ [][Next]_kmsVars
-----------------------------------------------------------------------------
\* Rotations may run at once and give two keys the same number, but exactly
\* one key of the list is active, and it is the newest entry.
OneActiveKey ==
    \A i \in DOMAIN key_versions : key_versions[i].active <=> i = Len(key_versions)
-----------------------------------------------------------------------------
\* What a rotation in progress needs to know of its version, and that the
\* list holds key versions.
KmsInv ==
    /\ key_versions \in Seq([version : Nat, active : BOOLEAN])
    /\ kms = [c \in Clients |-> kms[c]]
    /\ \A c \in Clients : kms[c].op = "rotate" => kms[c].version \in Nat
    /\ OneActiveKey
=============================================================================
