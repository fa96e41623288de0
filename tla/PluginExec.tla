----------------------------- MODULE PluginExec -----------------------------
(***************************************************************************)
(* A plugin from its signing to its metrics: sign-plugin on one side, and  *)
(* on the other Collect of ExecPlugin (internal/collectors) or of          *)
(* ExecDataPlugin (internal/datas), which verifies the program, runs it    *)
(* with a timeout and reads what it prints.  The two packages have the     *)
(* same verification and the same way to run a program, line for line, and *)
(* differ in what they make of the output.                                 *)
(*                                                                         *)
(* The program may fail, hang, or start another one that keeps its output  *)
(* open.  exec.Cmd.Run has three parts: a goroutine that waits for the     *)
(* deadline of the context and kills the program, the wait for the         *)
(* program, and then the wait for the end of its output.  Time passes      *)
(* while neither goroutine has something to do.                            *)
(***************************************************************************)
EXTENDS PluginParser

CONSTANTS Outputs,     \* what a plugin may print: sequences of metrics
          Timeout,     \* p.timeout(), in units of Tick
          MaxVersion,  \* bound: builds of the plugin
          MaxKey       \* bound: key pairs made

ASSUME ConstantsAssumption ==
    /\ \A out \in Outputs : out # <<>>
    /\ {Timeout, MaxVersion, MaxKey} \subseteq Nat \ {0}

VARIABLES
    \* files
    binary,    \* version of the plugin's binary, 0 when there is none
    sig,       \* the .sig file: <<key, version>>, or None or Short
    keyFile,   \* key pair of the .key file, 0 for none
    pubFile,   \* key pair of the .pub file
    \* sign-plugin
    signer,    \* where it is
    toSign,    \* version it has read
    \* the running Limiz
    limiz,     \* EmbeddedPublicKey and whether the plugin is in the allowlist
    kind,      \* "metric" or "data" plugin
    pc,        \* where Collect is
    hash,      \* version it has read, data in VerifyPlugin
    ran,       \* version that the running program was started from
    answer,    \* what it returns
    \* the running program
    child,     \* the process
    prints,    \* the metrics that it prints
    stdout,    \* lines it has printed
    held,      \* a process it has started holds its output
    watching,  \* the goroutine that waits for the deadline has not seen it
    timedOut,  \* ... has killed the program
    elapsed,   \* time since the start, up to Timeout + 1
    \* history
    signed,    \* pairs <<key, version>> that sign-plugin has signed
    lastSigned,\* the pair of the .sig file, when it was written to the end
    replaced,  \* the binary has changed between its reading and its start
    disturbed  \* a file has changed since Collect began

files   == <<binary, sig, keyFile, pubFile>>
tool    == <<signer, toSign, signed, lastSigned>>
check   == <<hash, ran, replaced>>
process == <<child, prints, stdout, held, watching, timedOut, elapsed>>
vars == <<files, tool, limiz, kind, pc, check, answer, process, disturbed>>

None == <<0, 0>>
Short == <<0, 1>>  \* truncated, and not written yet

Init ==
    /\ binary = 0 /\ sig = None /\ keyFile = 0 /\ pubFile = 0
    /\ signer = "idle" /\ toSign = 0
    /\ limiz = [key |-> 0, allows |-> FALSE]
    /\ kind \in {"metric", "data"}
    /\ pc = "idle" /\ hash = 0 /\ ran = 0 /\ replaced = FALSE
    /\ answer = [what |-> "none", metrics |-> <<>>]
    /\ child = "none" /\ prints = <<>> /\ stdout = <<>> /\ held = FALSE
    /\ watching = FALSE /\ timedOut = FALSE /\ elapsed = 0
    /\ signed = {} /\ lastSigned = None /\ disturbed = FALSE

-----------------------------------------------------------------------------
(* Building and signing.                                                   *)

\* The plugin is built (again) and put in its place.
BuildPlugin ==
    /\ binary < MaxVersion
    /\ binary' = binary + 1
    /\ disturbed' = TRUE
    /\ replaced' = (replaced \/ pc \in {"readSig", "start"})
    /\ UNCHANGED <<sig, keyFile, pubFile, tool, limiz, kind, pc, hash, ran, answer,
                   process>>

\* Limiz is built with the .pub file there is and an allowlist, and started.
BuildLimiz ==
    /\ pc = "idle"
    /\ \E a \in BOOLEAN : limiz' = [key |-> pubFile, allows |-> a]
    /\ UNCHANGED <<files, tool, kind, pc, check, answer, process, disturbed>>

\* generateKeys: the .key file, then the .pub file.
WriteKeyFile ==
    /\ signer = "idle"
    /\ keyFile < MaxKey
    /\ keyFile' = keyFile + 1
    /\ signer' = "writePub"
    /\ UNCHANGED <<binary, sig, pubFile, toSign, signed, lastSigned, limiz, kind, pc,
                   check, answer, process, disturbed>>

WritePubFile ==
    /\ signer = "writePub"
    /\ pubFile' = keyFile
    /\ signer' = "idle"
    /\ UNCHANGED <<binary, sig, keyFile, toSign, signed, lastSigned, limiz, kind, pc,
                   check, answer, process, disturbed>>

\* signFile: read the key and the binary ...
ReadToSign ==
    /\ signer = "idle"
    /\ keyFile # 0 /\ binary # 0
    /\ toSign' = binary
    /\ signer' = "truncate"
    /\ UNCHANGED <<files, signed, lastSigned, limiz, kind, pc, check, answer, process,
                   disturbed>>

\* ... os.WriteFile: the .sig file is made or emptied, and then written.
TruncateSig ==
    /\ signer = "truncate"
    /\ sig' = Short
    /\ signer' = "write"
    /\ lastSigned' = None
    /\ disturbed' = TRUE
    /\ UNCHANGED <<binary, keyFile, pubFile, toSign, signed, limiz, kind, pc, check,
                   answer, process>>

\* Mutant: the signature is written behind the one that is there.
AppendSig ==
    /\ signer = "write"
    /\ sig' = IF signed = {} THEN <<keyFile, toSign>> ELSE Short
    /\ signed' = signed \cup {<<keyFile, toSign>>}
    /\ lastSigned' = <<keyFile, toSign>>
    /\ signer' = "idle"
    /\ disturbed' = TRUE
    /\ UNCHANGED <<binary, keyFile, pubFile, toSign, limiz, kind, pc, check, answer,
                   process>>

WriteSig ==
    /\ signer = "write"
    /\ sig' = <<keyFile, toSign>>
    /\ signed' = signed \cup {<<keyFile, toSign>>}
    /\ lastSigned' = <<keyFile, toSign>>
    /\ signer' = "idle"
    /\ disturbed' = TRUE
    /\ UNCHANGED <<binary, keyFile, pubFile, toSign, limiz, kind, pc, check, answer,
                   process>>

\* It ends with an error, or is stopped, between two writes.
SignerFails ==
    /\ signer # "idle"
    /\ signer' = "idle"
    /\ UNCHANGED <<files, toSign, signed, lastSigned, limiz, kind, pc, check, answer,
                   process, disturbed>>

-----------------------------------------------------------------------------
(* Collect: VerifyPlugin, VerifyDataPlugin.                                *)

Return(what, metrics) ==
    /\ pc' = "return"
    /\ answer' = [what |-> what, metrics |-> metrics]

\* The allowlist and the embedded key come first.
Collect ==
    /\ pc = "idle"
    /\ disturbed' = FALSE
    /\ IF limiz.allows /\ limiz.key # 0
       THEN pc' = "readBinary" /\ UNCHANGED answer
       ELSE Return("refused", <<>>)
    /\ UNCHANGED <<files, tool, limiz, kind, check, process>>

ReadBinary ==
    /\ pc = "readBinary"
    /\ hash' = binary
    /\ IF binary # 0 THEN pc' = "readSig" /\ UNCHANGED answer
                     ELSE Return("refused", <<>>)
    /\ UNCHANGED <<files, tool, limiz, kind, ran, replaced, process, disturbed>>

\* Mutant: any signature by the key is taken.
ReadSigOfAnything ==
    /\ pc = "readSig"
    /\ IF sig[1] = limiz.key THEN pc' = "start" /\ UNCHANGED answer
                             ELSE Return("refused", <<>>)
    /\ UNCHANGED <<files, tool, limiz, kind, check, process, disturbed>>

\* The .sig file must be there, have its length, and be the signature of what
\* was read by the embedded key.
ReadSig ==
    /\ pc = "readSig"
    /\ IF sig = <<limiz.key, hash>> THEN pc' = "start" /\ UNCHANGED answer
                                    ELSE Return("refused", <<>>)
    /\ UNCHANGED <<files, tool, limiz, kind, check, process, disturbed>>

-----------------------------------------------------------------------------
(* Collect: exec.CommandContext(...).Run().                                *)

\* Mutant: exec.Command, which knows no deadline.
StartUnwatched ==
    /\ pc = "start"
    /\ pc' = "process"
    /\ child' = "running"
    /\ prints' \in Outputs
    /\ ran' = binary
    /\ UNCHANGED <<files, tool, limiz, kind, hash, replaced, answer, stdout, held, watching,
                   timedOut, elapsed, disturbed>>

\* The path is opened again: what runs is what is there now, which need not be
\* what VerifyPlugin has read.
Start ==
    /\ pc = "start"
    /\ pc' = "process"
    /\ child' = "running"
    /\ prints' \in Outputs
    /\ ran' = binary
    /\ watching' = TRUE
    /\ UNCHANGED <<files, tool, limiz, kind, hash, replaced, answer, stdout, held, timedOut,
                   elapsed, disturbed>>

StartFails ==
    /\ pc = "start"
    /\ Return("failed", <<>>)
    /\ UNCHANGED <<files, tool, limiz, kind, check, process, disturbed>>

\* The deadline: a program that is there is killed, one that has just ended
\* may or may not count as killed.
Kill ==
    /\ watching
    /\ elapsed >= Timeout
    /\ watching' = FALSE
    /\ IF child = "running" THEN child' = "killed" /\ timedOut' = TRUE
                            ELSE timedOut' \in BOOLEAN /\ UNCHANGED child
    /\ UNCHANGED <<files, tool, limiz, kind, pc, check, answer, prints, stdout, held,
                   elapsed, disturbed>>

\* Mutant: the goroutine that waits for the deadline goes on.
WaitProcessLeavesWatcher ==
    /\ pc = "process"
    /\ child # "running"
    /\ pc' = "output"
    /\ UNCHANGED <<files, tool, limiz, kind, check, answer, child, prints, stdout, held,
                   watching, timedOut, elapsed, disturbed>>

\* Process.Wait, after which nobody waits for the deadline.
WaitProcess ==
    /\ pc = "process"
    /\ child # "running"
    /\ watching' = FALSE
    /\ pc' = "output"
    /\ UNCHANGED <<files, tool, limiz, kind, check, answer, child, prints, stdout, held,
                   timedOut, elapsed, disturbed>>

\* json.Unmarshal: a part of an object is not an object.
DataAnswer ==
    IF stdout = PrintMetrics(prints) THEN Return("output", Meant(prints))
                                     ELSE Return("failed", <<>>)

MetricAnswer == Return("output", parsePrometheusText(stdout))

\* The end of the output, and with it of Run: nothing is made of the output
\* unless the program has ended by itself and well.
WaitOutput ==
    /\ pc = "output"
    /\ ~held
    /\ CASE child # "ended" \/ timedOut -> Return("failed", <<>>)
         [] child = "ended" /\ ~timedOut /\ kind = "metric" -> MetricAnswer
         [] child = "ended" /\ ~timedOut /\ kind = "data" -> DataAnswer
    /\ UNCHANGED <<files, tool, limiz, kind, check, process, disturbed>>

\* The caller has its answer.
Done ==
    /\ pc = "return"
    /\ pc' = "idle"
    /\ hash' = 0 /\ ran' = 0 /\ replaced' = FALSE
    /\ answer' = [what |-> "none", metrics |-> <<>>]
    /\ child' = "none" /\ prints' = <<>> /\ stdout' = <<>>
    /\ timedOut' = FALSE /\ elapsed' = 0
    /\ UNCHANGED <<files, tool, limiz, kind, held, watching, disturbed>>

-----------------------------------------------------------------------------
(* The program.                                                            *)

WriteLine ==
    /\ child = "running"
    /\ Len(stdout) < Len(PrintMetrics(prints))
    /\ stdout' = Append(stdout, PrintMetrics(prints)[Len(stdout) + 1])
    /\ UNCHANGED <<files, tool, limiz, kind, pc, check, answer, child, prints, held,
                   watching, timedOut, elapsed, disturbed>>

\* It starts another program, which writes nothing but keeps the output open.
Fork ==
    /\ child = "running"
    /\ held' = TRUE
    /\ UNCHANGED <<files, tool, limiz, kind, pc, check, answer, child, prints, stdout,
                   watching, timedOut, elapsed, disturbed>>

HolderEnds ==
    /\ held
    /\ held' = FALSE
    /\ UNCHANGED <<files, tool, limiz, kind, pc, check, answer, child, prints, stdout,
                   watching, timedOut, elapsed, disturbed>>

\* With exit code 0 it has printed everything.
Exit ==
    /\ child = "running"
    /\ \/ child' = "ended" /\ stdout = PrintMetrics(prints)
       \/ child' = "failed"
    /\ UNCHANGED <<files, tool, limiz, kind, pc, check, answer, prints, stdout, held,
                   watching, timedOut, elapsed, disturbed>>

\* Run waits for the program, before its deadline, or for its output.
Tick ==
    /\ \/ pc = "process" /\ child = "running" /\ (watching => elapsed < Timeout)
       \/ pc = "output" /\ held
    /\ elapsed' = Min({elapsed + 1, Timeout + 1})
    /\ UNCHANGED <<files, tool, limiz, kind, pc, check, answer, child, prints, stdout,
                   held, watching, timedOut, disturbed>>

-----------------------------------------------------------------------------
SignPlugin == \/ WriteKeyFile \/ WritePubFile \/ ReadToSign \/ TruncateSig
              \/ WriteSig \/ SignerFails

Run == \/ Collect \/ ReadBinary \/ ReadSig \/ Start \/ StartFails \/ Kill
       \/ WaitProcess \/ WaitOutput \/ Done

Program == WriteLine \/ Fork \/ HolderEnds \/ Exit

Next == BuildPlugin \/ BuildLimiz \/ SignPlugin \/ Run \/ Program \/ Tick

Spec == Init /\ [][Next]_vars

-----------------------------------------------------------------------------
(* Properties.                                                             *)

TypeOK ==
    /\ binary \in 0 .. MaxVersion
    /\ sig \in {None, Short} \cup ((1 .. MaxKey) \X (1 .. MaxVersion))
    /\ keyFile \in 0 .. MaxKey /\ pubFile \in 0 .. MaxKey
    /\ signer \in {"idle", "writePub", "truncate", "write"}
    /\ toSign \in 0 .. MaxVersion
    /\ limiz \in [key : 0 .. MaxKey, allows : BOOLEAN]
    /\ kind \in {"metric", "data"}
    /\ pc \in {"idle", "readBinary", "readSig", "start", "process", "output", "return"}
    /\ hash \in 0 .. MaxVersion /\ ran \in 0 .. MaxVersion
    /\ answer.what \in {"none", "refused", "failed", "output"}
    /\ child \in {"none", "running", "ended", "failed", "killed"}
    /\ prints \in Outputs \cup {<<>>}
    /\ {held, watching, timedOut, replaced, disturbed} \subseteq BOOLEAN
    /\ watching => pc = "process"
    /\ elapsed \in 0 .. Timeout + 1
    /\ signed \subseteq (1 .. MaxKey) \X (1 .. MaxVersion)
    /\ lastSigned \in {None} \cup signed

\* "If an error is returned, the plugin must not be executed" (VerifyPlugin):
\* a program that runs is in the allowlist, what was read of it is what
\* sign-plugin has signed with the embedded key, and what runs is what was
\* read, unless the binary was replaced in the moment between its reading and
\* its start, which the code does not notice.
RunsOnlySigned ==
    pc \in {"process", "output"} =>
        /\ limiz.allows
        /\ <<limiz.key, hash>> \in signed
        /\ replaced \/ ran = hash

\* A plugin that was signed after it was built, with the key whose .pub file
\* Limiz was built with, is not refused, unless its files change meanwhile.
SignedIsNotRefused ==
    pc = "return" /\ answer.what = "refused" /\ ~disturbed =>
        ~(limiz.allows /\ limiz.key # 0 /\ lastSigned = <<limiz.key, binary>>)

\* "Correctly handles commas inside quoted values" (parseLabels): Collect gives
\* back each metric as the program means it, with its help, type and labels,
\* and nothing of a program that was killed or failed before it had printed
\* everything.
ParsedAsMeant == answer.what = "output" => answer.metrics = Meant(prints)

\* The timeout ends Collect, whatever the program does: time passes beyond it
\* only while another program holds the output open.
TimeoutEnds == [][elapsed' > elapsed /\ elapsed' > Timeout => held]_vars

\* "Timeout aşılırsa: process öldür, uyarı logla, boş []Metric dön"
\* (docs/plugin-system.md): when the timeout is exceeded no metrics come back.
NothingAfterTimeout ==
    kind = "metric" /\ pc = "return" /\ elapsed > Timeout => answer.what # "output"
=============================================================================
