-------------------------------- MODULE Wasm --------------------------------
(* The WASM runtime of the agent (wasm/runtime.rs, wasm/mod.rs): modules   *)
(* compiled from files and kept, in memory and as artifacts on disk, under *)
(* a key made of the file's path, length and time of change; and the runs  *)
(* of their instances on threads of their own.                             *)
EXTENDS Naturals

CONSTANTS Clients,       \* concurrent callers
          MaxVersion,    \* bound on the changes of the file
          MaxStray       \* bound on the threads left behind by timeouts

\* The file's content is its version number; a write that was cut short
\* leaves an artifact nobody can deserialize.
Torn == MaxVersion + 1

VARIABLES version,       \* of the .wasm file: its content, and its time of change
          module_cache,  \* key -> version of the compiled module
          artifacts,     \* cache_dir: key -> version, or Torn
          load,          \* per client: the call being executed
          stray          \* blocking threads whose caller has timed out

wasmVars == <<version, module_cache, artifacts, load, stray>>

Empty == [k \in {} |-> 0]
Idle  == [do |-> "none"]

WasmTypeOK ==
    /\ version \in 1..MaxVersion
    /\ DOMAIN module_cache \subseteq 1..MaxVersion /\ DOMAIN artifacts \subseteq 1..MaxVersion
    /\ stray \in 0..MaxStray

\* WasmtimeRuntime::new
Init ==
    /\ version = 1 /\ stray = 0
    /\ module_cache = Empty /\ artifacts = Empty
    /\ load = [c \in Clients |-> Idle]

Goes(c, t) == load' = [load EXCEPT ![c] = t]

\* The map f with v under k.
Put(f, k, v) == [j \in DOMAIN f \cup {k} |-> IF j = k THEN v ELSE f[j]]

\* Mutant: the key is the path alone.
compute_cache_key_path(v) == 1

\* compute_cache_key: the hash of path, length and time of change tells the
\* versions of the file apart.
compute_cache_key(v) == v

\* from_file: the key is computed from the file as it is now ...
from_file(c) ==
    /\ load[c] = Idle
    /\ Goes(c, [do |-> "look", key |-> compute_cache_key(version), since |-> version])
    /\ UNCHANGED <<version, module_cache, artifacts, stray>>

Loaded(c, v) == Goes(c, [do |-> "loaded", since |-> load[c].since, module |-> v])

\* ... the memory cache is looked up under its read lock ...
LookUp(c) ==
    LET k == load[c].key IN
    /\ load[c].do = "look"
    /\ IF k \in DOMAIN module_cache THEN Loaded(c, module_cache[k])
       ELSE Goes(c, [load[c] EXCEPT !.do = "compile"])
    /\ UNCHANGED <<version, module_cache, artifacts, stray>>

\* ... or the file is read, perhaps changed since, and compiled.
compile(c) ==
    /\ load[c].do = "compile"
    /\ \/ Goes(c, [do |-> "artifact", key |-> load[c].key, since |-> load[c].since,
                   module |-> version])
       \/ Goes(c, Idle)   \* unreadable, or not a module
    /\ UNCHANGED <<version, module_cache, artifacts, stray>>

\* An artifact of the key that deserializes replaces what was just
\* compiled; any other is written anew, truncated first.
load_precompiled(c) ==
    LET k == load[c].key
        usable == k \in DOMAIN artifacts /\ artifacts[k] # Torn IN
    /\ load[c].do = "artifact"
    /\ IF usable
       THEN /\ Goes(c, [load[c] EXCEPT !.do = "insert", !.module = artifacts[k]])
            /\ UNCHANGED artifacts
       ELSE /\ artifacts' = Put(artifacts, k, Torn)
            /\ Goes(c, [load[c] EXCEPT !.do = "write"])
    /\ UNCHANGED <<version, module_cache, stray>>

\* A write that fails is ignored.
WriteArtifact(c) ==
    /\ load[c].do = "write"
    /\ \E a \in {load[c].module, Torn} : artifacts' = Put(artifacts, load[c].key, a)
    /\ Goes(c, [load[c] EXCEPT !.do = "insert"])
    /\ UNCHANGED <<version, module_cache, stray>>

InsertModule(c) ==
    /\ load[c].do = "insert"
    /\ module_cache' = Put(module_cache, load[c].key, load[c].module)
    /\ Loaded(c, load[c].module)
    /\ UNCHANGED <<version, artifacts, stray>>

\* call: the function of a fresh instance runs in the caller's task, until
\* it returns, exits, traps or runs out of fuel.
call(c) ==
    /\ load[c].do = "loaded"
    /\ Goes(c, Idle)
    /\ UNCHANGED <<version, module_cache, artifacts, stray>>

\* spawn and wait: an instance, and a blocking thread that runs its _start.
wait(c) ==
    /\ load[c].do = "loaded"
    /\ Goes(c, [do |-> "wait"])
    /\ UNCHANGED <<version, module_cache, artifacts, stray>>

Exit(c) ==
    /\ load[c].do = "wait"
    /\ Goes(c, Idle)
    /\ UNCHANGED <<version, module_cache, artifacts, stray>>

\* wait answers a timeout while the thread runs on with its store locked ...
TimeOut(c) ==
    /\ load[c].do = "wait" /\ stray < MaxStray
    /\ stray' = stray + 1
    /\ Goes(c, Idle)
    /\ UNCHANGED <<version, module_cache, artifacts>>

\* ... until its fuel is used up.
OutOfFuel ==
    /\ stray > 0
    /\ stray' = stray - 1
    /\ UNCHANGED <<version, module_cache, artifacts, load>>

clear_cache ==
    /\ module_cache' = Empty
    /\ UNCHANGED <<version, artifacts, load, stray>>

\* A deployment replaces the file.
Deploy ==
    /\ version < MaxVersion
    /\ version' = version + 1
    /\ UNCHANGED <<module_cache, artifacts, load, stray>>

\* The agent restarts: the artifacts stay, torn ones too.
Restart ==
    /\ module_cache' = Empty /\ stray' = 0
    /\ load' = [c \in Clients |-> Idle]
    /\ UNCHANGED <<version, artifacts>>

Next ==
    \/ OutOfFuel \/ clear_cache \/ Deploy \/ Restart
    \/ \E c \in Clients :
          \/ from_file(c) \/ LookUp(c) \/ compile(c) \/ load_precompiled(c)
          \/ WriteArtifact(c) \/ InsertModule(c)
          \/ call(c) \/ wait(c) \/ Exit(c) \/ TimeOut(c)

WasmSpec == Init /\ [][Next]_wasmVars
-----------------------------------------------------------------------------
\* from_file answers with a module at least as new as the file was when it
\* was called, whatever the caches in memory and on disk hold, although the
\* file may change between the key and the read, other loads write the same
\* artifact and restarts leave torn ones.
LoadedCurrent ==
    \A c \in Clients : load[c].do = "loaded" => load[c].module \in load[c].since..version

\* What is kept under a key was compiled when the file had the key, or later;
\* so was what a load carries, which began when the file had its key.
Compiled(f, more) == \A k \in DOMAIN f : k \in Nat /\ f[k] \in (k..version) \cup more
ModulesInv ==
    /\ version \in Nat \ {0} /\ DOMAIN load = Clients
    /\ Compiled(module_cache, {}) /\ Compiled(artifacts, {Torn})
    /\ \A c \in Clients :
         LET t == load[c] IN
         /\ t.do \in {"look", "compile", "artifact", "write", "insert"} =>
                t.key = t.since /\ t.since \in 1..version
         /\ t.do \in {"artifact", "write", "insert", "loaded"} => t.module \in t.since..version
=============================================================================
