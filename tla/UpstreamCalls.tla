---------------------------- MODULE UpstreamCalls ----------------------------
(****************************************************************************)
(* Calls to the services Foundry talks to (connectors/): the retries of the *)
(* transports and what the connectors do with them, several threads at a    *)
(* time.  A write is a comment or the dispatch of an agent; a state is the  *)
(* status label of a GitHub issue (set_state); a listing is the files of a  *)
(* pull request (list_pr_files); a notification goes to every chat surface  *)
(* (MultiNotifier).  The orchestrator logs what raises and goes on.         *)
(*                                                                          *)
(* The service is external: it handles a request or not, and if it does the *)
(* answer may be lost; a request given up for lost is not handled later.    *)
(* Waiting between attempts takes no time, other threads move meanwhile.    *)
(****************************************************************************)
EXTENDS Integers, Sequences, FiniteSets

CONSTANTS
  Threads,
  StatusLabels,      \* foundry:status:... labels
  TeamLabels,        \* labels people put on the issue
  Surfaces,          \* chat surfaces
  LastFile,          \* the files a pull request may change are 1..LastFile
  FilesPerPage,      \* _PER_PAGE
  TransportRetries,  \* _MAX_RETRIES
  NoCall,
  MaxPushes

\* A MultiNotifier is built over the surfaces there are, one at least
\* (api/app.py:2842-2868); what a request is on tells labels from surfaces.
ASSUME UpstreamAssumption ==
  /\ FilesPerPage \in Nat \ {0}
  /\ LastFile \in Nat /\ TransportRetries \in Nat /\ MaxPushes \in Nat
  /\ StatusLabels # {} /\ StatusLabels \cap TeamLabels = {}
  /\ Surfaces # {} /\ Surfaces \cap StatusLabels = {} /\ "write" \notin StatusLabels

VARIABLES
  labels,       \* the labels of the issue
  teamLabels,   \* those people put there (history)
  prFiles,      \* the files of the pull request
  pushes,
  calls,        \* thread -> its call in progress, or NoCall
  ended,        \* the call that has ended, until another begins (history)
  overlapped    \* two threads have set the state at once (history)

upstreamVars == <<labels, teamLabels, prFiles, pushes, calls, ended, overlapped>>

\* A call: what it does and its next request, the attempts made at that, the
\* label it sets, the labels or surfaces still to do, the page it is at, the
\* files it has got, the writes the service handled and whether the pull
\* request changed meanwhile.
Call(op, step, label, left) ==
  [op |-> op, step |-> step, tries |-> 0, label |-> label, left |-> left,
   page |-> 1, got |-> {}, sent |-> <<>>, moved |-> FALSE, how |-> "open"]

FirstLabel == CHOOSE l \in StatusLabels : TRUE

InitUpstream ==
  /\ labels = {FirstLabel} \cup TeamLabels
  /\ teamLabels = TeamLabels
  /\ prFiles = 1..LastFile
  /\ pushes = 0
  /\ calls = [c \in Threads |-> NoCall]
  /\ ended = NoCall
  /\ overlapped = FALSE

----------------------------------------------------------------------------
(* A request, and its attempts.                                             *)

\* Labels and surfaces are done one by one, in some order.
FirstOf(left) == CHOOSE x \in left : TRUE

Request(call) ==
  CASE call.step = "write" -> [method |-> "POST", on |-> "write"]
    [] call.step = "tell" -> [method |-> "POST", on |-> FirstOf(call.left)]
    [] call.step = "add" -> [method |-> "POST", on |-> call.label]
    [] call.step = "read" -> [method |-> "GET", on |-> "labels"]
    [] call.step = "drop" -> [method |-> "DELETE", on |-> FirstOf(call.left)]
    [] call.step = "page" -> [method |-> "GET", on |-> "files"]

\* Slip: whatever fails for a while is tried again.
AnyMethodRepeats(method) == method \in {"GET", "DELETE", "POST"}

\* _is_idempotent_method.
Idempotent(method) == method \in {"GET", "DELETE"}

\* "ok": handled and answered; "lost": handled, and the answer is an error or
\* none; "down": not handled, for now; "refused": a client error, as it is for
\* a label that is not there.
AnswersTo(request) ==
  IF request.method = "DELETE" /\ request.on \notin labels
  THEN {"down", "refused"}
  ELSE {"ok", "lost", "down", "refused"}

Handled(answer) == answer \in {"ok", "lost"}

\* What the service does when it handles a request.
Serves(request, answer) ==
  LET asks(method) ==
        {l \in StatusLabels : Handled(answer) /\ request = [method |-> method, on |-> l]}
  IN  labels' = (labels \cup asks("POST")) \ asks("DELETE")

WithSent(call, request, answer) ==
  [call EXCEPT !.sent = IF request.method = "POST" /\ Handled(answer)
                        THEN Append(@, request.on) ELSE @]

\* Transient failures of idempotent requests are tried again.
MayRepeat(call, request, answer) ==
  /\ answer \in {"lost", "down"}
  /\ Idempotent(request.method)
  /\ call.tries < TransportRetries

----------------------------------------------------------------------------
(* The connectors.                                                          *)

\* A page of the listing: files are listed in order.
FilePage(n) ==
  {f \in prFiles : (Cardinality({g \in prFiles : g <= f}) - 1) \div FilesPerPage = n - 1}

Ended(call, how) ==
  [call EXCEPT !.step = "end", !.how = how, !.tries = 0, !.left = {}, !.page = 1]

\* set_state: labels of other states go, one request each.
DropNext(call, left) ==
  IF left = {} THEN Ended(call, "returned")
  ELSE [call EXCEPT !.step = "drop", !.left = left, !.tries = 0]

\* _fan_out: the next surface, whether this one raised or not.
TellNext(call) ==
  IF call.left = {FirstOf(call.left)} THEN Ended(call, "returned")
  ELSE [call EXCEPT !.left = @ \ {FirstOf(@)}, !.tries = 0]

LastPage(batch) == Cardinality(batch) < FilesPerPage

\* list_pr_files: until a page is short.
PageNext(call, batch) ==
  LET read == [call EXCEPT !.got = @ \cup batch, !.tries = 0]
  IN  IF LastPage(batch) THEN Ended(read, "returned")
      ELSE [read EXCEPT !.page = @ + 1]

\* What a connector does when its request returns.
AfterReturn(call) ==
  CASE call.step = "write" -> Ended(call, "returned")
    [] call.step = "tell" -> TellNext(call)
    [] call.step = "add" -> [call EXCEPT !.step = "read", !.tries = 0]
    [] call.step = "read" -> DropNext(call, (labels \cap StatusLabels) \ {call.label})
    [] call.step = "drop" -> DropNext(call, call.left \ {FirstOf(call.left)})
    [] call.step = "page" -> PageNext(call, FilePage(call.page))

AfterRaise(call) ==
  IF call.step = "tell" THEN TellNext(call) ELSE Ended(call, "raised")

\* The call goes on, or has ended.
Goes(c, call) ==
  /\ calls' = [calls EXCEPT ![c] = IF call.step = "end" THEN NoCall ELSE call]
  /\ ended' = IF call.step = "end" THEN call ELSE ended
  /\ UNCHANGED <<teamLabels, prFiles, pushes, overlapped>>

----------------------------------------------------------------------------
BeginCall(c, call) ==
  /\ calls[c] = NoCall
  /\ calls' = [calls EXCEPT ![c] = call]
  /\ overlapped' =
       (overlapped \/ (call.op = "state"
                         /\ \E d \in Threads : calls[d] # NoCall /\ calls[d].op = "state"))
  /\ ended' = NoCall
  /\ UNCHANGED <<labels, teamLabels, prFiles, pushes>>

BeginWrite(c) == BeginCall(c, Call("write", "write", FirstLabel, {}))
BeginState(c, l) == BeginCall(c, Call("state", "add", l, {}))
BeginListing(c) == BeginCall(c, Call("listing", "page", FirstLabel, {}))
BeginNotify(c) == BeginCall(c, Call("notify", "tell", FirstLabel, Surfaces))

Succeeds(c) ==
  /\ calls[c] # NoCall
  /\ LET request == Request(calls[c])
     IN  /\ "ok" \in AnswersTo(request)
         /\ Serves(request, "ok")
         /\ Goes(c, AfterReturn(WithSent(calls[c], request, "ok")))

Repeats(c) ==
  /\ calls[c] # NoCall
  /\ LET request == Request(calls[c])
     IN  \E answer \in AnswersTo(request) \ {"ok"} :
           /\ MayRepeat(calls[c], request, answer)
           /\ Serves(request, answer)
           /\ Goes(c, [WithSent(calls[c], request, answer) EXCEPT !.tries = @ + 1])

Fails(c) ==
  /\ calls[c] # NoCall
  /\ LET request == Request(calls[c])
     IN  \E answer \in AnswersTo(request) \ {"ok"} :
           /\ ~MayRepeat(calls[c], request, answer)
           /\ Serves(request, answer)
           /\ Goes(c, AfterRaise(WithSent(calls[c], request, answer)))

\* People edit their labels, and the agent pushes (external).
EditLabels(ls) ==
  /\ labels' = (labels \cap StatusLabels) \cup ls
  /\ teamLabels' = ls
  /\ UNCHANGED <<prFiles, pushes, calls, ended, overlapped>>

PushFiles(fs) ==
  /\ pushes < MaxPushes
  /\ prFiles' = fs
  /\ pushes' = pushes + 1
  /\ calls' = [c \in Threads |->
                 IF calls[c] = NoCall THEN NoCall ELSE [calls[c] EXCEPT !.moved = TRUE]]
  /\ ended' = IF ended = NoCall THEN NoCall ELSE [ended EXCEPT !.moved = TRUE]
  /\ UNCHANGED <<labels, teamLabels, overlapped>>

NextUpstream ==
  \/ \E c \in Threads :
       \/ BeginWrite(c)
       \/ \E l \in StatusLabels : BeginState(c, l)
       \/ BeginListing(c)
       \/ BeginNotify(c)
       \/ Succeeds(c) \/ Repeats(c) \/ Fails(c)
  \/ \E ls \in SUBSET TeamLabels : EditLabels(ls)
  \/ \E fs \in SUBSET (1..LastFile) : PushFiles(fs)

----------------------------------------------------------------------------
CallsSeen ==
  [op : {"write", "state", "listing", "notify"},
   step : {"write", "tell", "add", "read", "drop", "page", "end"},
   tries : 0..TransportRetries, label : StatusLabels,
   left : SUBSET (StatusLabels \cup Surfaces), page : 1..(LastFile + 1),
   got : SUBSET (1..LastFile), sent : Seq({"write"} \cup StatusLabels \cup Surfaces),
   moved : BOOLEAN, how : {"open", "returned", "raised"}]

UpstreamTypeOK ==
  /\ labels \subseteq StatusLabels \cup TeamLabels
  /\ teamLabels \subseteq TeamLabels
  /\ prFiles \subseteq 1..LastFile
  /\ pushes \in 0..MaxPushes
  /\ \A c \in Threads : calls[c] = NoCall \/ calls[c] \in CallsSeen
  /\ ended = NoCall \/ ended \in CallsSeen
  /\ overlapped \in BOOLEAN

\* No write is handled twice within one call, whichever answers get lost, and
\* one that returned was handled ("Retry safety" of transport.py).
WritesHappenOnce ==
  /\ \A call \in {calls[c] : c \in Threads} \cup {ended} : call # NoCall =>
       \A i, j \in DOMAIN call.sent : call.sent[i] = call.sent[j] => i = j
  /\ ended # NoCall /\ ended.op = "write" /\ ended.how = "returned" => ended.sent # <<>>

\* set_state leaves people's labels alone, never leaves the issue without a
\* status label, and one that returned left its own alone there, as long as
\* no two set the state at once.
LabelsKeep ==
  /\ labels \cap TeamLabels = teamLabels
  /\ ~overlapped => labels \cap StatusLabels # {}
  /\ (/\ ~overlapped
      /\ ended # NoCall /\ ended.op = "state" /\ ended.how = "returned"
      /\ \A c \in Threads : calls[c] = NoCall \/ calls[c].op # "state")
     => labels \cap StatusLabels = {ended.label}

\* A listing that returned holds every file, unless a push came meanwhile,
\* whose event lists again.
ListingsComplete ==
  ended # NoCall /\ ended.op = "listing" /\ ended.how = "returned" /\ ~ended.moved =>
    ended.got = prFiles

\* What the connectors promise.
UpstreamKeepsPromises == WritesHappenOnce /\ LabelsKeep /\ ListingsComplete
===============================================================================
