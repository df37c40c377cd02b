---------------------------- MODULE FileTransfer ----------------------------
(* Files that go through a terminal's session.  A download: the device's   *)
(* pieces come to the broker, a goroutine for each writes it into a pipe   *)
(* (fileProxy in device.go) and acknowledges it, and GET /file/:sid reads  *)
(* the pipe (api.go).  An upload: the page sends a piece whenever an       *)
(* acknowledgement comes (Rtty.vue), and the device program handles every  *)
(* message in a goroutine of its own (handleFile in rtty-client/main.go).  *)
(*                                                                         *)
(* The command on the device that starts a transfer is not in the          *)
(* repository: its messages are those the broker and the page handle, and  *)
(* its pieces wait for acknowledgements.  A piece bears its transfer,      *)
(* which no action of the server reads.                                    *)
EXTENDS Naturals, Sequences, Functions

CONSTANTS
    MaxTransfers,  \* bound on the transfers of the session
    Size           \* pieces of a file

ASSUME FileTransferAssumption == MaxTransfers \in Nat /\ Size \in Nat \ {0}

Transfers == 1..MaxTransfers
None == 0

VARIABLES
    sess,     \* the session is in br.sessions
    begun,    \* transfers that the device has begun
    toBroker, toDevice, toPage, fromPage,  \* messages on the way
    entry,    \* br.fileProxy of the session: the download whose pipe it is, or None
    closed,   \* downloads whose pipe is closed
    writers,  \* goroutines of fileProxy.Write: [pipe, no, piece]
    get,      \* the page's GET for a transfer: [at, no, got], no its pipe
    source,   \* the device's download: [no, sent], no # None while it goes on
    page,     \* the upload dialog: [modal, accepted, file, offset, len, blob]
    target,   \* the device program's c.files of the session: the upload, or None
    jobs,     \* its goroutines: [msg, file], file # None when it is looked up
    shut,     \* uploads whose file is closed
    stored,   \* the uploaded files
    owed,     \* messages of uploads that await an acknowledgement (history)
    hurried,  \* a file was chosen while a message of an earlier one was owed,
              \* or a piece of it was read (history)
    shared,   \* downloads that used acknowledgements of others (history)
    aborted   \* downloads whose pipe an abort has closed (history)

server  == <<sess, entry, closed, writers, get>>
device  == <<begun, source>>
program == <<target, jobs, shut, stored>>
history == <<owed, hurried, shared, aborted>>
vars == <<server, device, program, toBroker, toDevice, toPage, fromPage, page, history>>

Msg(t, no, piece) == [t |-> t, no |-> no, piece |-> piece]
Msgs == [t : {"send", "recv", "info", "data", "ack", "abort"}, no : 0..MaxTransfers, piece : 0..Size]

\* The pipe of the session, if there is one.
Pipe == {entry} \ {None}
Idle == [no |-> None, sent |-> 0]
Pieces == [no : Transfers, piece : 1..Size]

TypeOK ==
    /\ sess \in BOOLEAN
    /\ begun \in 0..MaxTransfers
    /\ \A ch \in {toBroker, toDevice, toPage, fromPage} : ch \in Seq(Msgs)
    /\ entry \in 0..MaxTransfers
    /\ closed \subseteq Transfers
    /\ writers \subseteq [pipe : Transfers, no : Transfers, piece : 1..Size]
    /\ get \in [Transfers -> [at : {"idle", "asked", "reading", "ended"},
                              no : 0..MaxTransfers, got : Seq(Pieces)]]
    /\ source \in [no : 0..MaxTransfers, sent : 0..(Size + 1)]
    /\ page \in [modal : 0..MaxTransfers, accepted : BOOLEAN, file : 0..MaxTransfers,
                 offset : 0..Size, len : {0, Size}, blob : Seq([no : Transfers, piece : 0..Size])]
    /\ target \in 0..MaxTransfers
    /\ jobs \subseteq [msg : Msgs, file : 0..MaxTransfers]
    /\ shut \subseteq Transfers
    /\ stored \in [Transfers -> Seq(Pieces)]
    /\ owed \in Nat
    /\ hurried \in BOOLEAN
    /\ shared \cup aborted \subseteq Transfers

Init ==
    /\ sess = TRUE
    /\ begun = 0
    /\ toBroker = <<>> /\ toDevice = <<>> /\ toPage = <<>> /\ fromPage = <<>>
    /\ entry = None
    /\ closed = {}
    /\ writers = {}
    /\ get = [n \in Transfers |-> [at |-> "idle", no |-> None, got |-> <<>>]]
    /\ source = Idle
    /\ page = [modal |-> None, accepted |-> FALSE, file |-> None, offset |-> 0, len |-> 0, blob |-> <<>>]
    /\ target = None
    /\ jobs = {}
    /\ shut = {}
    /\ stored = [n \in Transfers |-> <<>>]
    /\ owed = 0
    /\ hurried = FALSE /\ shared = {} /\ aborted = {}

-----------------------------------------------------------------------------
(* The command on the device.                                              *)

Begin(t) ==
    /\ begun < MaxTransfers
    /\ begun' = begun + 1
    /\ toBroker' = Append(toBroker, Msg(t, begun + 1, 0))

BeginUpload ==
    /\ Begin("recv")
    /\ UNCHANGED <<server, source, program, toDevice, toPage, fromPage, page, history>>

BeginDownload ==
    /\ source.no = None
    /\ Begin("send")
    /\ source' = [no |-> begun + 1, sent |-> 0]
    /\ UNCHANGED <<server, program, toDevice, toPage, fromPage, page, history>>

StopDownload ==
    /\ source.no # None
    /\ toBroker' = Append(toBroker, Msg("abort", source.no, 0))
    /\ source' = Idle
    /\ UNCHANGED <<server, begun, program, toDevice, toPage, fromPage, page, history>>

\* An acknowledgement asks for the next piece, after the last for the end.
NextPiece(ack) ==
    LET n == source.sent + 1 IN
    IF source.no = None THEN UNCHANGED <<toBroker, source, shared>>
    ELSE /\ toBroker' = Append(toBroker, Msg("data", source.no, IF n > Size THEN 0 ELSE n))
         /\ source' = IF n > Size THEN Idle ELSE [source EXCEPT !.sent = n]
         /\ shared' = shared \cup ({source.no} \ {ack.no})

\* What comes to the device is for its command or for handleFile, which gets a goroutine.
DeviceReads ==
    LET m == Head(toDevice)
        Handle == jobs' = jobs \cup {[msg |-> m, file |-> None]} IN
    /\ toDevice # <<>>
    /\ toDevice' = Tail(toDevice)
    /\ \/ m.t = "ack" /\ NextPiece(m) /\ UNCHANGED jobs
       \/ m.t = "abort" /\ source' = Idle /\ Handle /\ UNCHANGED <<toBroker, shared>>
       \/ m.t \in {"info", "data"} /\ Handle /\ UNCHANGED <<toBroker, source, shared>>
    /\ UNCHANGED <<server, begun, target, shut, stored, toPage, fromPage, page, owed,
                   hurried, aborted>>

-----------------------------------------------------------------------------
(* The broker: fileMessage and userMessage.                                *)

ToPipeAcks(m) ==  \* mutant: the broker acknowledges the piece as well
    /\ writers' = writers \cup {[pipe |-> p, no |-> m.no, piece |-> m.piece] : p \in
                        IF m.piece = 0 THEN {} ELSE Pipe}
    /\ closed' = closed \cup IF m.piece = 0 THEN Pipe ELSE {}
    /\ toDevice' = Append(toDevice, Msg("ack", entry, 0))
ToPipeEndless(m) ==  \* mutant: the end is written as a piece is
    /\ writers' = writers \cup {[pipe |-> p, no |-> m.no, piece |-> m.piece] : p \in
                        IF m.piece = 0 THEN {} ELSE Pipe}
    /\ UNCHANGED <<closed, toDevice>>

\* A piece gets a goroutine that writes it, the end closes the pipe.
ToPipe(m) ==
    IF m.piece = 0
    THEN closed' = closed \cup Pipe /\ UNCHANGED <<writers, toDevice>>
    ELSE /\ writers' = writers \cup {[pipe |-> p, no |-> m.no, piece |-> m.piece] : p \in Pipe}
         /\ UNCHANGED <<closed, toDevice>>

FileMessage(m) ==
    \/ /\ m.t = "send"
       /\ entry' = m.no
       /\ toPage' = Append(toPage, m)
       /\ UNCHANGED <<closed, writers, toDevice, aborted>>
    \/ /\ m.t \in {"recv", "ack"}
       /\ toPage' = Append(toPage, m)
       /\ UNCHANGED <<entry, closed, writers, toDevice, aborted>>
    \/ /\ m.t = "data"
       /\ ToPipe(m)
       /\ UNCHANGED <<entry, toPage, aborted>>
    \/ /\ m.t = "abort"
       /\ closed' = closed \cup Pipe
       /\ aborted' = aborted \cup Pipe
       /\ UNCHANGED <<entry, writers, toDevice, toPage>>

BrokerFileMessage ==
    /\ toBroker # <<>>
    /\ toBroker' = Tail(toBroker)
    /\ \/ sess /\ FileMessage(Head(toBroker))
       \/ ~sess /\ UNCHANGED <<entry, closed, writers, aborted, toDevice, toPage>>
    /\ UNCHANGED <<sess, get, device, program, fromPage, page, owed, hurried, shared>>

BrokerUserMessage ==
    /\ fromPage # <<>>
    /\ fromPage' = Tail(fromPage)
    /\ toDevice' = IF sess THEN Append(toDevice, Head(fromPage)) ELSE toDevice
    /\ UNCHANGED <<server, device, program, toBroker, toPage, page, history>>

\* The user or the device leaves, or the shell exits.
EndSession ==
    /\ sess
    /\ sess' = FALSE
    /\ UNCHANGED <<entry, closed, writers, get, device, program, toBroker, toDevice,
                   toPage, fromPage, page, history>>

-----------------------------------------------------------------------------
(* The pipe of a download, and the page's requests for it.                 *)

Ack(w) == toDevice' = Append(toDevice, Msg("ack", w.pipe, 0))

\* Without the session there is nobody to acknowledge: the handler panics.
GetLoads(n) ==
    /\ get[n].at = "asked"
    /\ \/ /\ Pipe # {} /\ sess
          /\ get' = [get EXCEPT ![n].at = "reading", ![n].no = entry]
          /\ toDevice' = Append(toDevice, Msg("ack", entry, 0))
          /\ shared' = shared \cup IF \E g \in Transfers : get[g].no = entry THEN Pipe ELSE {}
       \/ /\ Pipe = {} \/ ~sess
          /\ get' = [get EXCEPT ![n].at = "ended"]
          /\ UNCHANGED <<toDevice, shared>>
    /\ UNCHANGED <<sess, entry, closed, writers, device, program, toBroker, toPage, fromPage,
                   page, owed, hurried, aborted>>

\* The handler reads what a goroutine writes, whose Write then returns.
Reads(n, w) ==
    /\ get[n].at = "reading" /\ get[n].no \notin closed
    /\ w.pipe = get[n].no
    /\ writers' = writers \ {w}
    /\ Ack(w)

GetReads(n) ==
    /\ \E w \in writers :
        /\ Reads(n, w)
        /\ get' = [get EXCEPT ![n].got = Append(@, [no |-> w.no, piece |-> w.piece])]
    /\ UNCHANGED <<sess, entry, closed, device, program, toBroker, toPage, fromPage, page,
                   history>>

\* The browser has gone: the response cannot be written, and for some errors
\* the reader is closed.  The entry stays.
GetBreaks(n) ==
    /\ \E w \in writers : Reads(n, w)
    /\ get' = [get EXCEPT ![n].at = "ended"]
    /\ closed' \in {closed, closed \cup {get[n].no}}
    /\ aborted' = aborted \cup {get[n].no}
    /\ UNCHANGED <<sess, entry, device, program, toBroker, toPage, fromPage, page, owed,
                   hurried, shared>>

\* The end of the pipe: the handler deletes the session's entry, whose pipe
\* may be another by now.
GetEnds(n) ==
    /\ get[n].at = "reading" /\ get[n].no \in closed
    /\ get' = [get EXCEPT ![n].at = "ended"]
    /\ entry' = None
    /\ UNCHANGED <<sess, closed, writers, device, program, toBroker, toDevice, toPage,
                   fromPage, page, history>>

\* A closed pipe fails the writes: Cancel, and the entry is deleted.
WriterFails(w) ==
    /\ w \in writers
    /\ w.pipe \in closed
    /\ writers' = writers \ {w}
    /\ toDevice' = Append(toDevice, Msg("abort", w.pipe, 0))
    /\ entry' = None
    /\ UNCHANGED <<sess, closed, get, device, program, toBroker, toPage, fromPage, page,
                   history>>

-----------------------------------------------------------------------------
(* The page.                                                               *)

\* readFileBlob, which throws if the reader is busy.
ReadAlways(blob, file, offset, len) ==  \* mutant: a read under way is started anew
    <<[no |-> file, piece |-> IF len = 0 THEN 0 ELSE offset + 1]>> \o blob
ReadBlob(blob, file, offset, len) ==
    IF blob # <<>> THEN blob
    ELSE <<[no |-> file, piece |-> IF len = 0 THEN 0 ELSE offset + 1]>>

OnAnyAck ==  \* mutant: the end of the file is not looked for
    page' = IF page.file # None
            THEN [page EXCEPT !.blob = ReadBlob(@, page.file, page.offset, page.len)]
            ELSE page
OnFileAck ==
    page' = IF page.file # None /\ page.offset < page.len
            THEN [page EXCEPT !.blob = ReadBlob(@, page.file, page.offset, page.len)]
            ELSE page

PageReads ==
    LET m == Head(toPage) IN
    /\ toPage # <<>>
    /\ toPage' = Tail(toPage)
    /\ \/ /\ m.t = "send"
          /\ get' = [get EXCEPT ![m.no].at = "asked"]
          /\ UNCHANGED <<page, owed>>
       \/ /\ m.t = "recv"
          /\ page' = [page EXCEPT !.modal = m.no, !.file = None, !.accepted = FALSE]
          /\ UNCHANGED <<get, owed>>
       \/ /\ m.t = "ack"
          /\ OnFileAck
          /\ owed' = owed - 1
          /\ UNCHANGED get
    /\ UNCHANGED <<sess, entry, closed, writers, device, program, toBroker, toDevice, fromPage,
                   hurried, shared, aborted>>

PageSends(m) ==
    /\ sess
    /\ fromPage' = Append(fromPage, m)
    /\ owed' = owed + 1
    /\ UNCHANGED <<server, device, program, toBroker, toDevice, toPage, shared, aborted>>

\* doUploadFile: the name and size, and at once the first piece is read, which
\* is sent before these are acknowledged.
ChooseFile(len) ==
    /\ page.modal # None
    /\ page' = [modal |-> None, accepted |-> TRUE, file |-> page.modal, offset |-> 0, len |-> len,
                blob |-> ReadBlob(page.blob, page.modal, 0, len)]
    /\ hurried' = (hurried \/ page.blob # <<>> \/ owed > 0)
    /\ PageSends(Msg("info", page.modal, 0))

\* fr.onload
SendPiece ==
    LET b == Head(page.blob) IN
    /\ page.blob # <<>>
    /\ page' = [page EXCEPT !.blob = Tail(@), !.offset = IF b.piece = 0 THEN @ ELSE @ + 1]
    /\ PageSends(Msg("data", b.no, b.piece))
    /\ UNCHANGED hurried

CancelUpload ==
    /\ sess
    /\ page.modal # None
    /\ page' = [page EXCEPT !.modal = None, !.file = None]
    /\ fromPage' = Append(fromPage, Msg("abort", page.modal, 0))
    /\ UNCHANGED <<server, device, program, toBroker, toDevice, toPage, history>>

-----------------------------------------------------------------------------
(* handleFile of the device program, one goroutine per message.            *)

Job(j, t) == j \in jobs /\ j.msg.t = t
Done(j) == jobs' = jobs \ {j}
Answer(t, j) == toBroker' = Append(toBroker, Msg(t, j.msg.no, 0))

CloseFile == shut' = shut \cup ({target} \ {None}) /\ target' = None

HandleInfo(j) ==
    /\ Job(j, "info")
    /\ Done(j)
    /\ \/ /\ target' = j.msg.no
          /\ shut' = shut \cup ({target} \ {None})
          /\ Answer("ack", j)
       \/ Answer("abort", j) /\ UNCHANGED <<target, shut>>
    /\ UNCHANGED <<server, device, stored, toDevice, toPage, fromPage, page, history>>

HandleLookupAnswers(j) ==  \* mutant: a piece is acknowledged before it is written, too
    /\ Job(j, "data") /\ j.msg.piece # 0 /\ j.file = None
    /\ \/ /\ target # None
          /\ jobs' = (jobs \ {j}) \cup {[j EXCEPT !.file = target]}
          /\ Answer("ack", j)
       \/ target = None /\ Answer("abort", j) /\ Done(j)
    /\ UNCHANGED <<server, device, target, shut, stored, toDevice, toPage, fromPage, page,
                   history>>

HandleLookup(j) ==
    /\ Job(j, "data") /\ j.msg.piece # 0 /\ j.file = None
    /\ \/ /\ target # None
          /\ jobs' = (jobs \ {j}) \cup {[j EXCEPT !.file = target]}
          /\ UNCHANGED toBroker
       \/ target = None /\ Answer("abort", j) /\ Done(j)
    /\ UNCHANGED <<server, device, target, shut, stored, toDevice, toPage, fromPage, page,
                   history>>

\* The write may fail, and fails if the file is closed; then the session's
\* present file is closed.
HandleWrite(j) ==
    /\ Job(j, "data") /\ j.file # None
    /\ Done(j)
    /\ \/ /\ j.file \notin shut
          /\ stored' = [stored EXCEPT ![j.file] =
                            Append(@, [no |-> j.msg.no, piece |-> j.msg.piece])]
          /\ Answer("ack", j)
          /\ UNCHANGED <<target, shut>>
       \/ CloseFile /\ Answer("abort", j) /\ UNCHANGED stored
    /\ UNCHANGED <<server, device, toDevice, toPage, fromPage, page, history>>

\* An empty file has one piece, the empty one.
HandleEnd(j) ==
    /\ Job(j, "data") /\ j.msg.piece = 0
    /\ Done(j)
    /\ CloseFile
    /\ Answer("ack", j)
    /\ UNCHANGED <<server, device, stored, toDevice, toPage, fromPage, page, history>>

HandleAbort(j) ==
    /\ Job(j, "abort")
    /\ Done(j)
    /\ CloseFile
    /\ UNCHANGED <<server, device, stored, toBroker, toDevice, toPage, fromPage, page, history>>

-----------------------------------------------------------------------------
Device == BeginUpload \/ BeginDownload \/ StopDownload \/ DeviceReads
Program == \E j \in jobs : \/ HandleInfo(j) \/ HandleLookup(j) \/ HandleWrite(j)
                           \/ HandleEnd(j) \/ HandleAbort(j)
Page == PageReads \/ SendPiece \/ CancelUpload \/ \E len \in {0, Size} : ChooseFile(len)

Next ==
    \/ Device \/ Program \/ Page
    \/ BrokerFileMessage \/ BrokerUserMessage \/ EndSession
    \/ \E n \in Transfers : GetLoads(n) \/ GetReads(n) \/ GetBreaks(n) \/ GetEnds(n)
    \/ \E w \in writers : WriterFails(w)

Spec == Init /\ [][Next]_vars

\* The goroutines of the server run; devices and browsers owe nothing.
FairSpec ==
    /\ Spec
    /\ WF_vars(BrokerFileMessage)
    /\ \A n \in Transfers : WF_vars(GetEnds(n))

-----------------------------------------------------------------------------
(* Properties.                                                             *)

InOrder(s, n) == \A i \in 1..Len(s) : s[i] = [no |-> n, piece |-> i]

\* What a download hands to the browser is the start of its file, in order,
\* although a goroutine of its own writes each piece; and it ends with the
\* whole file, unless it was aborted.  It must be the only one to read its
\* pipe, and the device must not have taken an acknowledgement of another
\* download for its own.
DownloadInOrder ==
    \A n \in Transfers : LET g == get[n] IN
        g.no \notin shared \cup {None} =>
            /\ InOrder(g.got, g.no)
            /\ g.at = "ended" /\ g.no \notin aborted => Len(g.got) = Size

\* The device program handles each piece of an upload in a goroutine of its
\* own, and the page has two messages under way from the start: pieces may be
\* stored in another order than the file's.  But a piece overtakes one other
\* at most, if files are chosen when what was sent before is acknowledged.
Overtakes(q, i, j) == i < j /\ q[j].no = q[i].no /\ q[j].piece < q[i].piece

OvertakesOne(q) ==
    \A i, j, k \in 1..Len(q) : Overtakes(q, i, j) /\ Overtakes(q, i, k) => j = k

UploadOvertakesOne == ~hurried => \A n \in Transfers : OvertakesOne(stored[n])

\* No piece is stored twice, whatever acknowledgements come when.
NoPieceTwice == \A n \in Transfers : IsInjective(stored[n])

\* When the end or an abort of a download is on its way, the request that
\* reads its pipe returns, as long as the session lives and keeps the pipe.
EndOnItsWay(d) ==
    \E i \in 1..Len(toBroker) :
        toBroker[i] \in {Msg("data", d, 0), Msg("abort", d, 0)}

EndedDownloadReturns ==
    \A n \in Transfers :
        (get[n].at = "reading" /\ entry = get[n].no /\ EndOnItsWay(entry))
            ~> (get[n].at = "ended" \/ ~sess \/ entry # get[n].no)
=============================================================================
