------------------------------ MODULE CertFiles ------------------------------
(* The file store of the edge's certificates (FileStore in                  *)
(* shellwego-edge/src/tls.rs).  A certificate is one file; put truncates it *)
(* and then writes, delete looks whether it is there and then removes it,   *)
(* and nothing keeps calls on one file apart.                               *)
(*                                                                          *)
(* The file's name is the domain with its last label replaced, so two       *)
(* domains may have one file.  Certificates come in two lengths: a short    *)
(* one written over a long one leaves the rest of the long one behind.      *)
EXTENDS Naturals

CONSTANTS Clients, Domains,
          Stem,         \* domain -> the domain without its last label
          MaxPuts       \* bound on the certificates put

VARIABLES entries,      \* path -> the file there: its inode and what is in it
          calls,        \* per client: where its put or delete is
          puts,         \* certificates put so far
          written,      \* path -> the certificate last put there in full
          mixed         \* paths where calls overlapped or a write was cut short

certFileVars == <<entries, calls, puts, written, mixed>>

NoCall  == [at |-> "idle"]
Lengths == {"short", "long"}
Empty   == [is |-> "empty"]
Torn    == [is |-> "torn"]
Paths   == {Stem[d] : d \in Domains}

\* cert_path: with_extension replaces what follows the last dot.
cert_path(d) == Stem[d]

CertFilesTypeOK ==
    /\ DOMAIN entries \subseteq Paths /\ mixed \subseteq Paths
    /\ \A p \in DOMAIN entries : entries[p].inode \in 1 .. MaxPuts

Init ==
    /\ entries = [p \in {} |-> Empty] /\ written = [p \in {} |-> Empty]
    /\ calls = [c \in Clients |-> NoCall]
    /\ puts = 0 /\ mixed = {}

Set(f, k, x) == [y \in DOMAIN f \cup {k} |-> IF y = k THEN x ELSE f[y]]
Unset(f, k)  == [y \in DOMAIN f \ {k} |-> f[y]]

\* A call on p begins: alone, or beside another one.
Begins(c, p) ==
    mixed' = IF \E o \in Clients \ {c} : calls[o] # NoCall /\ calls[o].path = p
             THEN mixed \cup {p} ELSE mixed \ {p}

Ends(c) == calls' = [calls EXCEPT ![c] = NoCall]

\* Mutant: the file is opened without being truncated.
truncate_not(p, inode) ==
    Set(entries, p, IF p \in DOMAIN entries THEN entries[p] ELSE [inode |-> inode, data |-> Empty])

\* Opened with truncation: the inode stays if there is a file.
truncate(p, inode) ==
    Set(entries, p, [inode |-> IF p \in DOMAIN entries THEN entries[p].inode ELSE inode,
                     data  |-> Empty])

put(c) ==
    /\ calls[c] = NoCall /\ puts < MaxPuts
    /\ \E d \in Domains, l \in Lengths :
         LET p == cert_path(d)
         IN  /\ entries' = truncate(p, puts + 1)
             /\ calls' = [calls EXCEPT ![c] =
                            [at |-> "write", path |-> p, inode |-> entries'[p].inode,
                             cert |-> [is |-> "cert", domain |-> d, n |-> puts + 1, length |-> l]]]
             /\ Begins(c, p)
    /\ puts' = puts + 1
    /\ UNCHANGED written

\* What a write from the start of the file makes of what is there.
Over(old, cert) ==
    IF cert.length = "short" /\ (old = Torn \/ (old.is = "cert" /\ old.length = "long"))
    THEN Torn ELSE cert

\* The write goes to the inode that was opened, wherever that is by now; it
\* may be cut short.
Write(c) ==
    LET call == calls[c]
    IN
    /\ call.at = "write"
    /\ \E whole \in BOOLEAN :
         /\ entries' = IF call.path \in DOMAIN entries
                            /\ entries[call.path].inode = call.inode
                       THEN [entries EXCEPT ![call.path].data =
                                IF whole THEN Over(@, call.cert) ELSE Torn]
                       ELSE entries
         /\ written' = IF whole THEN Set(written, call.path, call.cert) ELSE written
         /\ mixed' = IF whole THEN mixed ELSE mixed \cup {call.path}
    /\ Ends(c)
    /\ UNCHANGED puts

delete(c) ==
    /\ calls[c] = NoCall
    /\ \E d \in Domains :
         /\ cert_path(d) \in DOMAIN entries
         /\ calls' = [calls EXCEPT ![c] = [at |-> "remove", path |-> cert_path(d)]]
         /\ Begins(c, cert_path(d))
    /\ UNCHANGED <<entries, puts, written>>

\* remove_file fails if the file is gone.
Remove(c) ==
    /\ calls[c].at = "remove"
    /\ entries' = Unset(entries, calls[c].path) /\ written' = Unset(written, calls[c].path)
    /\ Ends(c)
    /\ UNCHANGED <<puts, mixed>>

\* The process ends between two steps of its calls.
Crash ==
    /\ calls # [c \in Clients |-> NoCall]
    /\ calls' = [c \in Clients |-> NoCall]
    /\ mixed' = mixed \cup {calls[c].path : c \in {x \in Clients : calls[x] # NoCall}}
    /\ UNCHANGED <<entries, puts, written>>

Next ==
    \/ Crash
    \/ \E c \in Clients : put(c) \/ Write(c) \/ delete(c) \/ Remove(c)

CertFilesSpec == Init /\ [][Next]_certFileVars
-----------------------------------------------------------------------------
\* get: none, the certificate, or an error for what does not parse.
get(d) ==
    LET p == cert_path(d)
    IN  IF p \notin DOMAIN entries THEN "none"
        ELSE IF entries[p].data.is = "cert" THEN "cert" ELSE "error"

\* Where no call is going on, and the last ones neither overlapped nor were
\* cut short, get finds the certificate last put into the file, and nothing
\* after a delete.
FilesWhole ==
    \A d \in Domains :
        LET p == cert_path(d)
        IN  p \notin mixed /\ (\A c \in Clients : calls[c] # NoCall => calls[c].path # p)
            => IF p \in DOMAIN written THEN get(d) = "cert" /\ entries[p].data = written[p]
               ELSE get(d) = "none"

\* Of a path where no calls have overlapped: at most one call is going on, a
\* put has its empty file to write to, and with none the file is as written.
CallsOn(p) == {c \in Clients : calls[c] # NoCall /\ calls[c].path = p}
AsWritten(p) ==
    /\ p \in DOMAIN written <=> p \in DOMAIN entries
    /\ p \in DOMAIN written => written[p].is = "cert" /\ entries[p].data = written[p]
Opened(p, call) ==
    /\ p \in DOMAIN entries /\ entries[p] = [inode |-> call.inode, data |-> Empty]
    /\ call.cert.is = "cert"
FilesInv ==
    /\ DOMAIN calls = Clients
    /\ \A p \in Paths \ mixed :
          /\ \A c, d \in CallsOn(p) : c = d
          /\ CallsOn(p) = {} => AsWritten(p)
          /\ \A c \in CallsOn(p) : calls[c].at = "write" => Opened(p, calls[c])
=============================================================================
