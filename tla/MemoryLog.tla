----------------------------- MODULE MemoryLog -----------------------------
(***************************************************************************)
(* The in-memory ring of recent log lines, MemoryLog (src/unnamed/part_000,*)
(* the memory_log.cc part): a deque of messages, the byte count           *)
(* current_size_bytes_ kept beside it, and a byte limit.  Appending a      *)
(* message, or lowering the limit, drops the oldest messages until the     *)
(* count fits.                                                             *)
(*                                                                         *)
(* A message is abstracted to its size in bytes; a MemoryLogMessage always *)
(* ends in a newline, so sizes are at least 1.  The formatting of the line *)
(* (timestamp, severity, file) only decides its size.                     *)
(*                                                                         *)
(* Messages reach the log through the base/logging handler chain.  The    *)
(* interceptor (LogMessageInterceptor) copies every ordinary LOG line into *)
(* the memory log and passes it on to the handler it replaced.  An MLOG    *)
(* line (MemoryLogMessage) is appended directly and is also sent down to  *)
(* base logging with the "memlog: " prefix, so that the interceptor skips  *)
(* it.  Any other component's handler is modelled as one "other" handler,  *)
(* installed over the current one and later put back (the discipline of   *)
(* scoped handlers).  It does not chain.                                   *)
(***************************************************************************)
EXTENDS Naturals, Sequences, SequencesExt

CONSTANTS
    MsgSizes,     \* sizes of the messages appended
    MaxSizes,     \* limits SetMaximumSize may be given
    DefaultMax,   \* kDefaultMaximumMemoryLogSizeInBytes
    MaxHistory    \* bound on the messages appended since the last reset

VARIABLES
    log,          \* log_: the sizes of the retained messages, oldest first
    current,      \* current_size_bytes_
    maximum,      \* maximum_size_bytes_
    flushed,      \* what the last FlushToDisk returned; -2 before any
    history,      \* messages appended since the last Clear or SetMaximumSize
    handler,      \* logging::GetLogMessageHandler(): "none" is NULL
    nested,       \* nested_message_handler
    otherSaved,   \* the handler the other handler replaced; "absent" if off
    installed     \* the interceptor was installed and not since uninstalled

vars == <<log, current, maximum, flushed, history, handler, nested,
          otherSaved, installed>>

Handlers == {"none", "interceptor", "other"}

Bytes(s) == FoldSeq(LAMBDA x, y : x + y, 0, s)

\* Mutant: the loop also pops when the count equals the target.
ShrinkInclusive(lg, cur, target) ==
    LET RECURSIVE Loop(_, _)
        Loop(l, c) == IF c >= target /\ l # << >> THEN Loop(Tail(l), c - Head(l))
                      ELSE <<l, c>>
    IN  Loop(lg, cur)

\* ShrinkToTargetSize: while the count exceeds the target, pop the front
\* message and subtract its size.  The result is <<log_, current_size_>>.
RECURSIVE ShrinkToTargetSize(_, _, _)
ShrinkToTargetSize(lg, cur, target) ==
    IF cur > target
    THEN ShrinkToTargetSize(Tail(lg), cur - Head(lg), target)
    ELSE <<lg, cur>>

Init ==
    /\ log = << >>
    /\ current = 0
    /\ maximum = DefaultMax
    /\ flushed = -2
    /\ history = << >>
    /\ handler = "none" /\ nested = "none"
    /\ otherSaved = "absent" /\ installed = FALSE

\* The log state a message is appended to: log_, current_size_bytes_ and
\* the appended history.
LogState == [log |-> log, current |-> current, history |-> history]

\* Mutant: the new message is counted but the log is not shrunk.
AppendNoShrink(st, size) ==
    [log |-> Append(st.log, size), current |-> st.current + size,
     history |-> Append(st.history, size)]

\* MemoryLog::Append (what ~MemoryLogMessage calls): count and push the
\* message, then shrink to maximum_size_bytes_.
AppendMsg(st, size) ==
    LET r == ShrinkToTargetSize(Append(st.log, size), st.current + size, maximum)
    IN  [log |-> r[1], current |-> r[2], history |-> Append(st.history, size)]

\* n lines of the given size appended one after another.
RECURSIVE AppendLines(_, _, _)
AppendLines(st, size, n) ==
    IF n = 0 THEN st ELSE AppendLines(AppendMsg(st, size), size, n - 1)

HandlerVars == <<handler, nested, otherSaved, installed>>

SetLog(st) == log' = st.log /\ current' = st.current /\ history' = st.history

(* A formatted line is a sequence of pieces: the "header" (timestamp,    *)
(* severity, file and line), the "memlog: " prefix, and the "text" of the  *)
(* statement.  message_start is a 0-based offset into the line, counted in *)
(* pieces: the header is one piece.                                        *)

\* LogMessageInterceptor(str, message_start): the lines it puts into the
\* memory log.  It copies the message unless the text at message_start
\* begins with "memlog: " (strncmp over the prefix length) or there is no
\* text there.  The copy is a MemoryLogMessage with propagate_down false,
\* so it is appended once and not sent on.  The nested handler it calls
\* next is never the interceptor itself (see InstallLogInterceptor) and
\* neither it nor base logging writes to the memory log.
LogMessageInterceptor(str, start) ==
    IF start < Len(str) /\ str[start + 1] # "memlog: " THEN 1 ELSE 0

\* The lines the installed handler h puts into the memory log.
HandlerLines(h, str, start) ==
    IF h = "interceptor" THEN LogMessageInterceptor(str, start) ELSE 0

\* Mutant: message_start_ is taken after the prefix has been streamed.
MemoryLogMessageInitLate == [stream |-> <<"header", "memlog: ">>, start |-> 2]

\* MemoryLogMessage::Init: stream the header, record message_start_ as the
\* stream's position, then stream the prefix.
MemoryLogMessageInit == [stream |-> <<"header", "memlog: ">>, start |-> 1]

\* A MemoryLogMessage's lifetime: Init, then the text; the destructor
\* sends the stream from message_start_ down to base logging when
\* propagate_down (base logging puts its own header before it, so the
\* offset is again one piece), then appends the line itself.
MemoryLogMessageLines(propagate) ==
    LET init == MemoryLogMessageInit
        sentText == SubSeq(Append(init.stream, "text"), init.start + 1,
                           Len(init.stream) + 1)
    IN  (IF propagate THEN HandlerLines(handler, <<"header">> \o sentText, 1)
         ELSE 0) + 1

\* LOG(severity) << ...: a base logging message, offered to the handler.
LOG(size) ==
    /\ Len(history) < MaxHistory
    /\ SetLog(AppendLines(LogState, size,
                          HandlerLines(handler, <<"header", "text">>, 1)))
    /\ UNCHANGED <<maximum, flushed>> /\ UNCHANGED HandlerVars

\* MLOG(severity) << ...: a MemoryLogMessage with propagate_down.
MLOG(size) ==
    /\ Len(history) < MaxHistory
    /\ SetLog(AppendLines(LogState, size, MemoryLogMessageLines(TRUE)))
    /\ UNCHANGED <<maximum, flushed>> /\ UNCHANGED HandlerVars

\* MemoryLog::InstallLogInterceptor: remember the current handler as the
\* nested one and put the interceptor in its place.  Installing over the
\* interceptor itself would make it its own nested handler and recurse
\* without end; callers install once and again only after uninstalling.
InstallLogInterceptor ==
    /\ ~installed
    /\ nested' = handler
    /\ handler' = "interceptor"
    /\ installed' = TRUE
    /\ UNCHANGED <<log, current, maximum, flushed, history, otherSaved>>

\* Mutant: the nested handler is restored whatever the current one is.
UninstallLogInterceptorUnchecked ==
    /\ handler' = nested
    /\ installed' = FALSE
    /\ UNCHANGED <<log, current, maximum, flushed, history, nested, otherSaved>>

\* MemoryLog::UninstallLogInterceptor: restore the nested handler if the
\* interceptor is the current one; otherwise MLOG(ERROR) the refusal and
\* leave every handler installed.
UninstallLogInterceptor ==
    \/ /\ handler = "interceptor"
       /\ handler' = nested
       /\ installed' = FALSE
       /\ UNCHANGED <<log, current, maximum, flushed, history, nested,
                      otherSaved>>
    \/ /\ handler # "interceptor"
       /\ \E size \in MsgSizes : MLOG(size)

\* Another component sets its own handler over the current one.
OtherHandlerInstalled ==
    /\ otherSaved = "absent"
    /\ otherSaved' = handler
    /\ handler' = "other"
    /\ UNCHANGED <<log, current, maximum, flushed, history, nested, installed>>

\* ... and later puts back the one it replaced.
OtherHandlerRemoved ==
    /\ handler = "other"
    /\ handler' = otherSaved
    /\ otherSaved' = "absent"
    /\ UNCHANGED <<log, current, maximum, flushed, history, nested, installed>>

\* Clear.
Clear ==
    /\ current' = 0
    /\ log' = << >>
    /\ history' = << >>
    /\ UNCHANGED <<maximum, flushed>> /\ UNCHANGED HandlerVars

\* SetMaximumSize: shrink to the new limit, then store it.
SetMaximumSize(size) ==
    /\ LET r == ShrinkToTargetSize(log, current, size)
       IN  /\ log' = r[1]
           /\ current' = r[2]
           /\ history' = r[1]
    /\ maximum' = size
    /\ UNCHANGED flushed /\ UNCHANGED HandlerVars

\* FlushToDisk: -1 when the file cannot be opened or a write fails,
\* otherwise the bytes of every retained message, written oldest first.
FlushToDisk(ok) ==
    /\ flushed' = IF ok THEN Bytes(log) ELSE -1
    /\ UNCHANGED <<log, current, maximum, history>> /\ UNCHANGED HandlerVars

Next ==
    \/ \E size \in MsgSizes : LOG(size) \/ MLOG(size)
    \/ InstallLogInterceptor
    \/ UninstallLogInterceptor
    \/ OtherHandlerInstalled
    \/ OtherHandlerRemoved
    \/ Clear
    \/ \E size \in MaxSizes : SetMaximumSize(size)
    \/ \E ok \in BOOLEAN : FlushToDisk(ok)

Spec == Init /\ [][Next]_vars

-----------------------------------------------------------------------------

\* current_size_bytes_ is the total size of the retained messages and never
\* exceeds the limit, and the retained messages are the latest ones
\* appended, in order: Append, Clear and SetMaximumSize keep the count and
\* the deque in step.
SizeAccounting ==
    /\ current = Bytes(log)
    /\ current <= maximum
    /\ IsSuffix(log, history)

\* Reference: the longest run of the latest messages whose total fits.
LongestFit(h, limit) ==
    LET fits == { s \in Suffixes(h) \cup {h, << >>} : Bytes(s) <= limit }
    IN  CHOOSE s \in fits : \A t \in fits : Len(t) <= Len(s)

\* Only as many old messages are dropped as the limit requires: the log
\* is the longest suffix of what was appended that fits the limit.
KeepsNewestThatFit == log = LongestFit(history, maximum)

\* Below(h): the handler that h passes a message on to, or restores.
Below(h) ==
    CASE h = "interceptor" -> nested
      [] h = "other"       -> otherSaved
      [] OTHER             -> "none"

\* The handler chain stays a chain of exactly the installed handlers:
\* following each handler to the one it replaced reaches the interceptor
\* exactly while it is installed, the other handler exactly while that is
\* installed, and then NULL, without a cycle.  Uninstalling while another
\* handler sits on top, or reinstalling after an uninstall, must not drop
\* a handler from the chain or leave a stale one in it.
ChainIntact ==
    LET reach == {handler, Below(handler), Below(Below(handler))}
    IN  /\ ("interceptor" \in reach) = installed
        /\ ("other" \in reach) = (otherSaved # "absent")
        /\ Below(Below(Below(handler))) = "none"

\* Every log statement is recorded once: an MLOG line, which also reaches
\* the interceptor through base logging, is appended exactly once, and an
\* ordinary LOG line is appended exactly when the interceptor is the
\* current handler.  The MLOG half rests on MemoryLogMessage::Init taking
\* message_start_ before it streams the prefix, so that the text sent down
\* begins with the prefix the interceptor tests for at message_start.
EveryStatementRecordedOnce ==
    [][\A size \in MsgSizes :
         /\ MLOG(size) => Len(history') = Len(history) + 1
         /\ LOG(size) =>
              (Len(history') = Len(history) + 1) = (handler = "interceptor")]_vars
=============================================================================
