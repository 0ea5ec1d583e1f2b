---------------------------- MODULE ConnectFlow ----------------------------
(* The connect flow (connectFlow.tsx) and the way of an error to it: ssh-core gives it a
   code and words (error.rs), the binding joins them (ffi-napi lib.rs), Electron wraps the
   text as it crosses, and parseFfiError (errors.ts) finds the code again. Several
   attempts run at a time; there is one prompt and one message.

   A text is the sequence of its parts, joined by a colon and a space. Of a part the
   parser tells apart the word in small letters that it ends with, if any, whether that
   is the whole part, and the fingerprint in it. Errors are of one line.             *)
EXTENDS Naturals, Sequences, FiniteSets

CONSTANTS
    Host,        \* hosts of the list
    Fingerprint, \* fingerprints of host keys
    Attempt,     \* slots for attempts under way
    MaxAttempts  \* bound on the attempts ever started

VARIABLES
    credential, \* what resolveCredential finds for each host
    attempts,   \* the attempts under way
    prompt,     \* the host-key prompt: a set of at most one
    lastError,  \* the code of the message shown, "none" for none
    opened,     \* hosts that got a tab
    refusals,   \* history: host keys that the native module refused, by host
    shown,      \* history: the error met last, and what the flow made of it
    started     \* how many attempts were started

cfVars == <<credential, attempts, prompt, lastError, opened, refusals, shown, started>>

HostKeyCodes == {"host_key_unknown", "host_key_mismatch"}
\* SshError.code, for the variants with a message of their own and those without.
WithMessage == {"connect", "auth", "sftp", "forward", "io", "internal"}
Bare == {"no_such_session", "no_such_channel", "no_such_transfer", "no_such_forward", "timeout"}
Known == HostKeyCodes \cup WithMessage \cup Bare

NoError == [code |-> "none", keys |-> {}, colon |-> FALSE]
\* What ssh-core answers a connect, an openShell and a trust with; a message may have a
\* colon in it.
Refusal ==
    [connect |-> [code : HostKeyCodes, keys : {{f} : f \in Fingerprint}, colon : {FALSE}]
                    \cup [code : {"connect", "auth"}, keys : {{}}, colon : BOOLEAN]
                    \cup [code : {"timeout"}, keys : {{}}, colon : {FALSE}],
     shell |-> [code : {"connect"}, keys : {{}}, colon : BOOLEAN]
                  \cup [code : {"no_such_session"}, keys : {{}}, colon : {FALSE}],
     trust |-> [code : {"io", "internal"}, keys : {{}}, colon : BOOLEAN]]

----------------------------------------------------------------------------
Part(word, whole, keys) == [word |-> word, whole |-> whole, keys |-> keys]
\* "connection failed", "sftp error", "no such session": each ends in a small word.
Words == Part("failed", FALSE, {})
Invoking == Part("none", FALSE, {})   \* Error invoking remote method 'termif:ssh:connect'
ErrorName == Part("rror", FALSE, {})

\* The Display of the error.
Display(error) ==
    IF error.code \in HostKeyCodes THEN <<Part("none", FALSE, error.keys)>>
    ELSE IF error.code \in Bare THEN <<Words>>
    ELSE IF error.colon THEN <<Words, Words, Words>> ELSE <<Words, Words>>

\* What the page catches: to_napi's text, behind what Electron puts before it.
Crossed(error) == <<Invoking, ErrorName, Part(error.code, TRUE, {})>> \o Display(error)

\* text.split('Error:').pop()
AfterLastError(text) ==
    LET last == CHOOSE i \in DOMAIN text :
                    text[i] = ErrorName /\ \A j \in DOMAIN text : text[j] = ErrorName => j <= i
    IN  SubSeq(text, last + 1, Len(text))

Keys(text) == UNION {text[i].keys : i \in DOMAIN text}
Mentions(text) == \E i \in DOMAIN text : text[i].word \in HostKeyCodes

\* The first match of a small word before a colon takes the rest of the line with it, so
\* it is also the last.
Fallback(text) ==
    LET hits == {i \in 1..(Len(text) - 1) : text[i].word # "none"}
        code == text[CHOOSE i \in hits : \A j \in hits : i <= j].word
    IN  IF hits # {} /\ code \in Known THEN [code |-> code, keys |-> Keys(text)]
        ELSE [code |-> "unknown", keys |-> {}]

\* A bug: the text is never taken out of what Electron put around it.
ParsedWrapped(text) ==
    IF text[1].whole /\ Len(text) > 1 THEN [code |-> text[1].word, keys |-> Keys(text)]
    ELSE Fallback(text)

\* parseFfiError
Parsed(text) ==
    LET candidate == IF Mentions(AfterLastError(text)) THEN AfterLastError(text) ELSE text
    IN  IF candidate[1].whole /\ Len(candidate) > 1
        THEN [code |-> candidate[1].word, keys |-> Keys(candidate)]
        ELSE Fallback(text)

\* The CoreErrors of the page's own, which stay what they are: the host's credential has no
\* row (resolveCredential), or one with an empty secret (#openConnection's own 'auth', here
\* no_secret, to tell it from the server's).
OwnError == [gone |-> "credential_missing", empty |-> "no_secret"]
Caught(error) ==
    IF error.code \in {"credential_missing", "no_secret"} THEN [code |-> error.code, keys |-> {}]
    ELSE Parsed(Crossed(error))

----------------------------------------------------------------------------
NoAttempt == [at |-> "none"]

FlowInit ==
    /\ credential \in [Host -> {"none", "gone", "empty", "kept"}]
    /\ attempts = [a \in Attempt |-> NoAttempt]
    /\ prompt = {} /\ lastError = "none"
    /\ opened = {} /\ refusals = {} /\ started = 0
    /\ shown = [error |-> NoError, first |-> TRUE, as |-> {}, code |-> "none"]

\* attempt, up to its first answer: the host's credential decides how it begins.
Begun(a, host, first) ==
    attempts' = [attempts EXCEPT ![a] =
        CASE credential[host] = "none" -> NoAttempt
          [] credential[host] \in DOMAIN OwnError ->
                [at |-> "failed", host |-> host, first |-> first,
                 error |-> [NoError EXCEPT !.code = OwnError[credential[host]]]]
          [] OTHER -> [at |-> "connect", host |-> host, first |-> first, error |-> NoError]]

\* start, from a click on a host or on "connect". A prompt that is open stays.
Start(a, host) ==
    /\ attempts[a] = NoAttempt /\ started < MaxAttempts
    /\ started' = started + 1
    /\ Begun(a, host, TRUE)
    /\ lastError' = IF credential[host] = "none" THEN "noCredential" ELSE "none"
    /\ UNCHANGED <<credential, prompt, opened, refusals, shown>>

\* The native module accepts the step that the attempt is at: after the connect a shell is
\* opened, with it a tab, and after the trust the host is tried again.
Accepted(a) ==
    LET attempt == attempts[a]
    IN  /\ attempt.at \in {"connect", "shell", "trust"}
        /\ CASE attempt.at = "connect" ->
                  attempts' = [attempts EXCEPT ![a].at = "shell"] /\ UNCHANGED <<lastError, opened>>
             [] attempt.at = "shell" ->
                  /\ attempts' = [attempts EXCEPT ![a] = NoAttempt]
                  /\ opened' = opened \cup {attempt.host}
                  /\ UNCHANGED lastError
             [] OTHER ->
                  /\ Begun(a, attempt.host, FALSE)
                  /\ lastError' = IF credential[attempt.host] = "none" THEN "noCredential" ELSE lastError
                  /\ UNCHANGED opened
        /\ UNCHANGED <<credential, prompt, refusals, shown, started>>

\* The native module refuses it.
Refused(a, error) ==
    /\ attempts[a].at \in DOMAIN Refusal /\ error \in Refusal[attempts[a].at]
    /\ attempts' = [attempts EXCEPT ![a].at = "failed", ![a].error = error]
    /\ refusals' = refusals \cup {<<attempts[a].host, error.code, key>> : key \in error.keys}
    /\ UNCHANGED <<credential, prompt, lastError, opened, shown, started>>

\* classifyConnectError: a refused host key is asked about, anything else is a message.
Asks(core, host) ==
    IF core.code \in HostKeyCodes THEN {[host |-> host, mode |-> core.code, keys |-> core.keys]} ELSE {}

\* The attempt's catch. One that follows a trust is reported and not asked about again.
Failed(a) ==
    LET attempt == attempts[a]
        core == Caught(attempt.error)
        asks == IF attempt.first THEN Asks(core, attempt.host) ELSE {}
    IN  /\ attempt.at = "failed"
        /\ attempts' = [attempts EXCEPT ![a] = NoAttempt]
        /\ prompt' = IF asks = {} THEN prompt ELSE asks
        /\ lastError' = IF asks = {} THEN core.code ELSE lastError
        /\ shown' = [error |-> attempt.error, first |-> attempt.first, as |-> asks, code |-> core.code]
        /\ UNCHANGED <<credential, opened, refusals, started>>

\* trustAndRetry, which only the prompt for an unknown key offers.
Trust(a) ==
    /\ attempts[a] = NoAttempt
    /\ \E asked \in prompt :
        /\ asked.mode = "host_key_unknown"
        /\ attempts' = [attempts EXCEPT ![a] =
               [at |-> "trust", host |-> asked.host, first |-> FALSE, error |-> NoError, keys |-> asked.keys]]
    /\ prompt' = {}
    /\ UNCHANGED <<credential, lastError, opened, refusals, shown, started>>

Cancel ==
    /\ prompt # {} /\ prompt' = {}
    /\ UNCHANGED <<credential, attempts, lastError, opened, refusals, shown, started>>

FlowNext ==
    \/ Cancel
    \/ \E a \in Attempt :
        \/ Accepted(a) \/ Failed(a) \/ Trust(a)
        \/ \E host \in Host : Start(a, host)
        \/ \E at \in DOMAIN Refusal : \E error \in Refusal[at] : Refused(a, error)

FlowSpec == FlowInit /\ [][FlowNext]_cfVars

----------------------------------------------------------------------------
\* A refused host key always gets the user asked, in the mode of that refusal and with its
\* fingerprint, however many attempts overlap; and a trust only goes to the native module
\* with a host and a key that were refused together as unknown.
HostKeyAsked ==
    /\ shown.error.code \in HostKeyCodes /\ shown.first =>
           \E asked \in shown.as : asked.mode = shown.error.code /\ asked.keys = shown.error.keys
    /\ \A a \in Attempt : attempts[a].at = "trust" =>
           \E key \in attempts[a].keys : <<attempts[a].host, "host_key_unknown", key>> \in refusals

\* An error keeps the code that ssh-core gave it, so that the message fits the failure
\* (errors.ts, "we look for the *last* code: message pair, not the first"). The parser does
\* not: it takes only host-key errors out of Electron's text, and the fallback for the
\* others meets the "rror:" of "Error:" first.
ErrorCodeKept == shown.code = shown.error.code
=============================================================================
