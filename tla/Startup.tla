------------------------------ MODULE Startup ------------------------------
(***************************************************************************)
(* The process around the server (rustmistmcp/src/main.rs, and the signal   *)
(* hooks and serve_http of rustmistmcp/src/http_transport.rs): start, serve, *)
(* reload on SIGHUP, stop.  A process can get a signal between any two      *)
(* steps, the next one (a restart, or the token command, which provisions   *)
(* the audit key as well) can start at any time, and the operator edits the  *)
(* token files meanwhile.                                                  *)
(***************************************************************************)
EXTENDS Naturals

CONSTANTS
  Processes,     \* process instances; each is started at most once
  CommandLines,  \* process -> [command, transport, hmac, redact, otel, auditFile, evidence,
                 \*             profile, tokens, noAuth, lab, loopback]: the command
                 \*             lines that parse and that cli_validate accepts
  InitialFiles,  \* token file -> content, at first
  MaxEdits,      \* edits of the token files
  NoKey, NoTokens, NoLine

VARIABLES
  startPc,   \* process -> the step it is at
  exit,      \* process -> "none", "refused", "served", "done", "HUP", "TERM"
  line,      \* process -> its command line
  keyFile,   \* the audit key file: "absent", "empty", or the process that wrote the key
  usedKey,   \* process -> the key its audit records are signed with
  overlap,   \* two processes found the key missing at once
  hooks,     \* process -> installed signal hooks: "audit", "tokens", "term"
  pipeline,  \* process -> evidence pipeline: "off", "running", "flushed", "unflushed"
  files,     \* token file -> Absent, Broken, or a version
  store,     \* process -> the token file its store is bound to
  tokens,    \* process -> <<file, version>> in force
  edits

startVars == <<startPc, exit, line, keyFile, usedKey, overlap, hooks, pipeline, files, store, tokens, edits>>

TokenFiles == {"canonical", "legacy", "custom"}
Absent == 0
Broken == 1
Loadable(content) == content \notin {Absent, Broken}

\* MistConfig::validate: all of these hold of a profile that is accepted.
ProfileChecks == {"version", "endpoint", "host", "credential", "orgs"}
ValidProfile(profile) == ProfileChecks \subseteq profile

Lines ==
  [command: {"serve", "token"}, transport: {"http", "stdio"}, hmac: BOOLEAN, redact: BOOLEAN, otel: BOOLEAN,
   auditFile: BOOLEAN, evidence: BOOLEAN, profile: SUBSET ProfileChecks, tokens: TokenFiles \cup {"none"},
   noAuth: BOOLEAN, lab: BOOLEAN, loopback: BOOLEAN]

\* A key is named by the process that wrote it, so no process is named like a
\* key file without one.
ASSUME StartAssumption ==
  /\ Processes \cap {"absent", "empty"} = {}
  /\ NoKey \notin Processes \cup {"absent", "empty"}
  /\ CommandLines \in [Processes -> SUBSET Lines]
  /\ InitialFiles \subseteq [TokenFiles -> Nat]
  /\ MaxEdits \in Nat

StartInit ==
  /\ startPc = [p \in Processes |-> "off"]
  /\ exit = [p \in Processes |-> "none"]
  /\ line = [p \in Processes |-> NoLine]
  /\ keyFile \in {"absent", "empty"}
  /\ usedKey = [p \in Processes |-> NoKey]
  /\ overlap = FALSE
  /\ hooks = [p \in Processes |-> {}]
  /\ pipeline = [p \in Processes |-> "off"]
  /\ files \in InitialFiles
  /\ store = [p \in Processes |-> "none"]
  /\ tokens = [p \in Processes |-> NoTokens]
  /\ edits = 0

-----------------------------------------------------------------------------
(* Steps of one process *)

At(p, step) == startPc[p] = step /\ exit[p] = "none"
Go(p, step) == startPc' = [startPc EXCEPT ![p] = step] /\ UNCHANGED exit
Leave(p, how) == exit' = [exit EXCEPT ![p] = how] /\ UNCHANGED startPc

Launch(p) ==
  /\ At(p, "off")
  /\ \E l \in CommandLines[p] : line' = [line EXCEPT ![p] = l]
  /\ Go(p, "key")
  /\ UNCHANGED <<keyFile, usedKey, overlap, hooks, pipeline, files, store, tokens, edits>>

\* Mutant of CheckKey: a key file is only looked for, not into.
CheckKeyExists(p) ==
  /\ At(p, "key")
  /\ Go(p, IF ~line[p].hmac \/ keyFile # "absent" THEN "audit" ELSE "truncate")
  /\ UNCHANGED <<line, keyFile, usedKey, overlap, hooks, pipeline, files, store, tokens, edits>>

\* ensure_audit_hmac_key: a key file that is there and not empty is left alone.
CheckKey(p) ==
  LET provision == line[p].hmac /\ keyFile \in {"absent", "empty"} IN
  /\ At(p, "key")
  /\ Go(p, IF provision THEN "truncate" ELSE "audit")
  /\ overlap' = (overlap \/ (provision /\ \E q \in Processes \ {p} :
                   exit[q] = "none" /\ startPc[q] \in {"truncate", "write"}))
  /\ UNCHANGED <<line, keyFile, usedKey, hooks, pipeline, files, store, tokens, edits>>

TruncateKey(p) ==
  /\ At(p, "truncate")
  /\ \/ keyFile' = "empty" /\ Go(p, "write")
     \/ UNCHANGED keyFile /\ Leave(p, "refused")
  /\ UNCHANGED <<line, usedKey, overlap, hooks, pipeline, files, store, tokens, edits>>

WriteKey(p) ==
  /\ At(p, "write")
  /\ \/ keyFile' = p /\ Go(p, "audit")
     \/ UNCHANGED keyFile /\ Leave(p, "refused")
  /\ UNCHANGED <<line, usedKey, overlap, hooks, pipeline, files, store, tokens, edits>>

\* init_audit from the redaction on: the key is read where redaction is asked for.
InitAudit(p) ==
  /\ At(p, "audit")
  /\ IF line[p].otel \/ (line[p].redact /\ (~line[p].hmac \/ keyFile = "absent"))
       THEN Leave(p, "refused") /\ UNCHANGED usedKey
       ELSE /\ Go(p, "command")
            /\ usedKey' = [usedKey EXCEPT ![p] = IF line[p].redact THEN keyFile ELSE NoKey]
  /\ UNCHANGED <<line, keyFile, overlap, hooks, pipeline, files, store, tokens, edits>>

\* Mutant of Command: the reopening of the audit log is left to the HTTP server.
CommandNoHook(p) ==
  /\ At(p, "command")
  /\ IF line[p].command = "token" THEN Leave(p, "done") ELSE Go(p, "configure")
  /\ UNCHANGED <<line, keyFile, usedKey, overlap, hooks, pipeline, files, store, tokens, edits>>

\* The token command ends here; a server installs install_audit_reopen_handler.
Command(p) ==
  /\ At(p, "command")
  /\ IF line[p].command = "token" THEN Leave(p, "done") /\ UNCHANGED hooks
     ELSE /\ Go(p, "configure")
          /\ hooks' = [hooks EXCEPT ![p] = IF line[p].auditFile THEN {"audit"} ELSE {}]
  /\ UNCHANGED <<line, keyFile, usedKey, overlap, pipeline, files, store, tokens, edits>>

\* MistConfig::from_path, then the evidence pipeline.
Configure(p) ==
  /\ At(p, "configure")
  /\ \/ /\ ValidProfile(line[p].profile)
        /\ pipeline' = [pipeline EXCEPT ![p] = IF line[p].evidence THEN "running" ELSE "off"]
        /\ Go(p, "construct")
     \/ /\ ~ValidProfile(line[p].profile) \/ line[p].evidence
        /\ Leave(p, "refused") /\ UNCHANGED pipeline
  /\ UNCHANGED <<line, keyFile, usedKey, overlap, hooks, files, store, tokens, edits>>

\* load_approval_digest_key and from_config_with_lab_mode; then the first
\* discovery, which cannot fail, and the refresh task.
Construct(p) ==
  /\ At(p, "construct")
  /\ Go(p, "listen") \/ Leave(p, "refused")
  /\ UNCHANGED <<line, keyFile, usedKey, overlap, hooks, pipeline, files, store, tokens, edits>>

\* Mutant of ResolveTokens: the legacy file stands in for any missing one.
ResolveTokensAnyPath(configured) ==
  IF files[configured] = Absent /\ files["legacy"] # Absent THEN "legacy" ELSE configured

\* resolve_tokens_with: only the canonical path falls back.
ResolveTokens(configured) ==
  IF configured = "canonical" /\ files[configured] = Absent /\ files["legacy"] # Absent
  THEN "legacy" ELSE configured

\* load_http_token_store and install_token_reload_handler; stdio serves at once.
Listen(p) ==
  LET configured == line[p].tokens
      resolved   == ResolveTokens(configured) IN
  /\ At(p, "listen")
  /\ \/ line[p].transport = "stdio" /\ Go(p, "serving") /\ UNCHANGED <<hooks, store, tokens>>
     \/ /\ line[p].transport = "http" /\ configured \in TokenFiles /\ Loadable(files[resolved])
        /\ store' = [store EXCEPT ![p] = resolved]
        /\ tokens' = [tokens EXCEPT ![p] = <<resolved, files[resolved]>>]
        /\ hooks' = [hooks EXCEPT ![p] = @ \cup {"tokens"}]
        /\ Go(p, "bind")
     \/ /\ line[p].transport = "http" /\ configured = "none" /\ line[p].noAuth
        /\ Go(p, "bind") /\ UNCHANGED <<hooks, store, tokens>>
     \/ /\ line[p].transport = "http"
        /\ IF configured = "none" THEN ~line[p].noAuth ELSE ~Loadable(files[resolved])
        /\ Leave(p, "refused") /\ UNCHANGED <<hooks, store, tokens>>
  /\ UNCHANGED <<line, keyFile, usedKey, overlap, pipeline, files, edits>>

\* load_listener_tls, the address, refuse_lab_mode_off_loopback, the handlers of
\* SIGTERM and SIGINT, and serve_http up to the bound socket, whose failure is
\* the end of serving.
Bind(p) ==
  /\ At(p, "bind")
  /\ \/ Leave(p, "refused") /\ UNCHANGED hooks
     \/ /\ ~line[p].lab \/ line[p].loopback
        /\ hooks' = [hooks EXCEPT ![p] = @ \cup {"term"}]
        /\ Go(p, "serving")
  /\ UNCHANGED <<line, keyFile, usedKey, overlap, pipeline, files, store, tokens, edits>>

\* The transport returns: end of input, an error, or the shutdown token.
ServeEnds(p) ==
  /\ At(p, "serving")
  /\ Go(p, "stopping")
  /\ UNCHANGED <<line, keyFile, usedKey, overlap, hooks, pipeline, files, store, tokens, edits>>

\* Mutant of Stop: an error of the transport is returned at once.
StopAtOnce(p) ==
  /\ At(p, "stopping") /\ Leave(p, "served")
  /\ UNCHANGED <<line, keyFile, usedKey, overlap, hooks, pipeline, files, store, tokens, edits>>

\* The end of main: whatever serving returned, the spool is flushed.
Stop(p) ==
  /\ At(p, "stopping") /\ Leave(p, "served")
  /\ \/ pipeline[p] = "off" /\ UNCHANGED pipeline
     \/ /\ pipeline[p] = "running"
        /\ \E end \in {"flushed", "unflushed"} : pipeline' = [pipeline EXCEPT ![p] = end]
  /\ UNCHANGED <<line, keyFile, usedKey, overlap, hooks, files, store, tokens, edits>>

-----------------------------------------------------------------------------
(* Signals and the operator *)

\* install_token_reload_handler: a failed parse retains the snapshot.
Reload(p) ==
  tokens' = [tokens EXCEPT ![p] = IF Loadable(files[store[p]]) THEN <<store[p], files[store[p]]>> ELSE @]

Running(p) == exit[p] = "none" /\ startPc[p] # "off"

\* SIGHUP runs the installed hooks (a failed reopening of the log keeps the old
\* file), and kills a process that has none.
Hangup(p) ==
  /\ Running(p)
  /\ IF {"audit", "tokens"} \cap hooks[p] = {} THEN Leave(p, "HUP") /\ UNCHANGED tokens
     ELSE /\ IF "tokens" \in hooks[p] THEN Reload(p) ELSE UNCHANGED tokens
          /\ UNCHANGED <<startPc, exit>>
  /\ UNCHANGED <<line, keyFile, usedKey, overlap, hooks, pipeline, files, store, edits>>

\* SIGTERM and SIGINT cancel the serving of HTTP, or kill.
Terminate(p) ==
  /\ Running(p)
  /\ IF "term" \notin hooks[p] THEN Leave(p, "TERM")
     ELSE startPc[p] = "serving" /\ Go(p, "stopping")
  /\ UNCHANGED <<line, keyFile, usedKey, overlap, hooks, pipeline, files, store, tokens, edits>>

\* external: the operator writes, breaks, moves or removes a token file.
EditTokens ==
  /\ edits < MaxEdits /\ edits' = edits + 1
  /\ \E f \in TokenFiles, c \in {Absent, Broken, edits + 3} : files' = [files EXCEPT ![f] = c]
  /\ UNCHANGED <<startPc, exit, line, keyFile, usedKey, overlap, hooks, pipeline, store, tokens>>

StartNext ==
  \/ \E p \in Processes :
       \/ Launch(p) \/ CheckKey(p) \/ TruncateKey(p) \/ WriteKey(p) \/ InitAudit(p) \/ Command(p)
       \/ Configure(p) \/ Construct(p) \/ Listen(p) \/ Bind(p) \/ ServeEnds(p) \/ Stop(p)
       \/ Hangup(p) \/ Terminate(p)
  \/ EditTokens

StartSpec == StartInit /\ [][StartNext]_startVars

-----------------------------------------------------------------------------
(* Properties *)

Configured == {"configure", "construct", "listen", "bind", "serving", "stopping"}

\* The audit key that records were signed with stays in its file, over crashes
\* at any point and restarts, and is never empty ("A non-empty file is never
\* rotated -- that would silently break verification of every audit record
\* signed under the old key", main.rs); two first starts at once are the one
\* exception, since the check and the truncation are two steps.
SignedKeyKept ==
  \A p \in Processes : usedKey[p] # NoKey /\ ~overlap => usedKey[p] \in Processes /\ keyFile = usedKey[p]

\* Log rotation never kills a server that writes an audit file, whatever its
\* transport and authentication, and a token reload never kills one that serves
\* tokens (install_audit_reopen_handler, install_token_reload_handler).
RotationSurvived ==
  \A p \in Processes : exit[p] = "HUP" =>
    /\ startPc[p] \in Configured => ~line[p].auditFile
    /\ startPc[p] \in {"bind", "serving", "stopping"} => store[p] = "none"

\* However serving ends, the evidence spool is flushed before the process
\* leaves ("whichever way serving ended", main.rs); a SIGTERM ends HTTP serving
\* that way too.
SpoolDelivered ==
  \A p \in Processes :
    /\ exit[p] = "served" => pipeline[p] # "running"
    /\ exit[p] = "TERM" /\ startPc[p] \in {"serving", "stopping"} => line[p].transport = "stdio"

\* The tokens in force were parsed from the file the store is bound to, whatever
\* happens to the files later, and that is the configured one, or the legacy one
\* for the canonical path alone ("falling back to the legacy file would silently
\* reactivate unrelated or revoked credentials", main.rs).
TokensAsConfigured ==
  \A p \in Processes : tokens[p] # NoTokens =>
    /\ tokens[p][1] = store[p] /\ Loadable(tokens[p][2])
    /\ store[p] = line[p].tokens \/ (store[p] = "legacy" /\ line[p].tokens = "canonical")
=============================================================================
