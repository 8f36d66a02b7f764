---------------------------- MODULE MCSandboxView ----------------------------
(***************************************************************************)
(* A small host with merged /usr, a home directory that holds a workspace, *)
(* a Cargo home and a protected directory, and the requests over it.       *)
(***************************************************************************)
EXTENDS SandboxViewInv

home   == <<"home">>
ws     == <<"home", "ws">>
target == <<"home", "ws", "target">>
lock   == <<"home", "ws", "lock">>
ssh    == <<"home", "ssh">>
gone   == <<"home", "gone">>
ch     == <<"home", "cargo">>
registry    == <<"home", "cargo", "registry">>
credentials == <<"home", "cargo", "credentials">>
etc    == <<"etc">>
config == <<"etc", "cargo">>
usr    == <<"usr">>
bin    == <<"usr", "bin">>
bash   == <<"usr", "bin", "bash">>
cargo  == <<"usr", "bin", "cargo">>

MCDirs  == {Root, Run, home, ws, target, ssh, ch, registry, usr, bin, etc, config}
MCFiles == {lock, credentials, bash, cargo}
MCLinks == {<<"bin">>, <<"bin", "bash">>, <<"bin", "cargo">>}
MCPaths ==
  MCDirs \cup MCFiles \cup MCLinks \cup SandboxOwn \cup {gone}
    \cup {Append(CargoHomeInSandbox, c) : c \in CacheNames}
MCRuntime == {[source |-> usr, dest |-> usr], [source |-> etc, dest |-> etc],
              [source |-> bin, dest |-> <<"bin">>]}

MCNames == UNION {{p[i] : i \in 1..Len(p)} : p \in MCPaths}

\* The default policy nests all of these: a workspace and the Cargo home below
\* the private home, the target and lockfile in the read-only workspace.
MCRequests ==
  {r \in
    [writable   : {{}, {target}, {lock}, {target, lock}, {home}, {registry}},
     readOnly   : {{}, {ws}, {target}, {ch}, {home}, {ws, target}, {ws, ch}},
     private    : {{}, {home}, {home, ch}, {home, ws}, {bin}},
     hidden     : {{}, {ssh}, {credentials}, {home}, {bin}, {config}, {gone},
                   {home, ssh}, {ssh, credentials}},
     cargoHome  : {{}, {ch}, {bin}, {home}},
     program    : {<<"bin", "cargo">>, lock},
     currentDir : {ws, usr}] :
    r.program = lock => r.currentDir = usr}
==============================================================================
