----------------------------- MODULE MCRenderer -----------------------------
(* The page's views and its way to the native module, for TLC: the workbench, the file
   browser, the connect flow and the bridge's conversions.  As in
   MCStorage, a behaviour takes place in one part.                                  *)
EXTENDS Workbench, FileBrowser, ConnectFlow, Ipc

VARIABLE part  \* the part that runs

MCInit ==
    /\ part \in {"bench", "browser", "bridge", "flow"}
    /\ BenchInit
    /\ BrowserInit
    /\ IpcInit
    /\ FlowInit
    /\ part # "flow" => credential = [host \in Host |-> "kept"]

\* A step of one part leaves the others alone.
InBench == part = "bench" /\ UNCHANGED <<part, fbVars, ipcVars, cfVars>>
InBrowser == part = "browser" /\ UNCHANGED <<part, wbVars, ipcVars, cfVars>>
InBridge == part = "bridge" /\ UNCHANGED <<part, wbVars, fbVars, cfVars>>
InFlow == part = "flow" /\ UNCHANGED <<part, wbVars, fbVars, ipcVars>>

MCNext ==
    \/ \E s \in Session :
        \/ InBench /\ Connect(s)
        \/ InBench /\ Connected(s)
        \/ InBench /\ ConnectFails(s)
        \/ InBench /\ TabOpenFails(s)
        \/ InBench /\ SessionDrops(s)
        \/ InBench /\ Reconnected(s)
        \/ InBench /\ Exhausted(s)
        \/ \E t \in Tab : InBench /\ TabOpens(s, t)
    \/ \E t \in Tab :
        \/ InBench /\ Exit(t)
        \/ InBench /\ Output(t)
        \/ InBench /\ CloseTab(t)
        \/ InBench /\ Activate(t)
        \/ InBench /\ Mount(t)
    \/ \E name \in {"terminal", "files", "forwards"} : InBench /\ ShowPanel(name)
    \/ InBench /\ OpenForm
    \/ InBench /\ CloseForm
    \/ \E p \in {1, 2} :
        \/ InBrowser /\ Point(p)
        \/ InBrowser /\ Keep(p)
        \/ \E name \in Name : InBrowser /\ AskRemove(p, name)
        \/ \E k \in Call :
            \/ InBrowser /\ Up(p, k)
            \/ InBrowser /\ Refresh(p, k)
            \/ InBrowser /\ RemoveEntry(p, k)
            \/ InBrowser /\ Send(p, k)
            \/ InBrowser /\ Drop(p, k)
            \/ InBrowser /\ Dialog(p, k)
            \/ \E dir \in {"home", "sub", "root"} : InBrowser /\ OpenDir(p, k, dir)
            \/ \E name \in Name : InBrowser /\ Mkdir(p, k, name)
    \/ \E k \in Call :
        \/ InBrowser /\ Listed(k)
        \/ InBrowser /\ Mutated(k)
        \/ InBrowser /\ MutationFailed(k)
        \/ InBrowser /\ Enqueued(k)
        \/ \E fails \in BOOLEAN : InBrowser /\ Runs(k, fails)
    \/ \E target \in File : InBrowser /\ Lands(target)
    \/ \E kind \in DOMAIN Carries : \E event \in CoreEvent(kind) : InBridge /\ PushEvent(event)
    \/ InBridge /\ Poll
    \/ InBridge /\ PollRefused
    \/ InBridge /\ Drained
    \/ InBridge /\ Hear
    \/ \E k \in Slot :
        \/ InBridge /\ Returned(k)
        \/ \E id \in Id :
            \/ InBridge /\ CallNative(k, id)
            \/ InBridge /\ Handled(k, id)
    \/ InFlow /\ Cancel
    \/ \E a \in Attempt :
        \/ InFlow /\ Accepted(a)
        \/ InFlow /\ Failed(a)
        \/ InFlow /\ Trust(a)
        \/ \E host \in Host : InFlow /\ Start(a, host)
        \/ \E at \in DOMAIN Refusal : \E error \in Refusal[at] : InFlow /\ Refused(a, error)

MCSpec == MCInit /\ [][MCNext]_<<part, wbVars, fbVars, ipcVars, cfVars>>
=============================================================================
