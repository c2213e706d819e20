---------------------------- MODULE FileSharing ----------------------------
(* Files received from the Z21 app: FileSharing and FileTransferSession      *)
(* (lmrs/roco/z21appfilesharing.cpp), and what the main window of lmrstudio  *)
(* asks and does about them (mainwindow.cpp).                                *)
(*                                                                           *)
(* The questions of the main window are modal: they run an event loop of     *)
(* their own, in which other peers are served and further questions open on  *)
(* top.  They are asked from within the slot of readyRead(), which Qt does   *)
(* not emit again for that socket meanwhile.                                 *)
(*                                                                           *)
(* Abstractions.  Bytes are counted in units.  The discovery by UDP has no   *)
(* state.  A peer sends its file when it is told "install", not before.      *)
EXTENDS Integers, Sequences

CONSTANTS
    Peers,          \* connections, each of one peer with one file
    FileNames,      \* names the peers announce
    FileSize,       \* announced size
    ChunkSize,      \* what one read() of receiveFile() takes at most
    MaxSent,        \* bound: what a peer may send
    MaxSwitches,    \* bound: how often sharing is switched or the app restarts
    NoFile          \* no file has this name

SharingAssumption ==
    {FileSize, ChunkSize, MaxSent} \subseteq Nat \ {0} /\ MaxSwitches \in Nat

VARIABLES
    listening,  \* FileSharing::isListening(): m_tcpServer and m_udpSocket
    remembered, \* the setting MainWindow/FileSharingEnabled
    socket,     \* peer -> its socket: still "Open", the peer has "Left" it,
                \* "Closed" by cancel(), "Deleted" with the server
    session,    \* peer -> FileTransferSession::State
    fileName,   \* peer -> fileInfo.fileName() and localFile->fileName()
    received,   \* peer -> totalBytesReceived
    sent,       \* peer -> what it has sent of its file
    questions,  \* open message boxes, the last one opened first
    files,      \* file name -> whose file that is and its size
    plan,       \* the file the track plan view shows
    switches

vars == <<listening, remembered, socket, session, fileName, received, sent,
          questions, files, plan, switches>>

States == {"Connected", "Started", "Accepted", "Rejected", "Finished"}
Files  == [of : Peers, size : 0..MaxSent] \union {NoFile}

\* MainWindow: onSettingsFileSharingChecked() at the start; the port may be taken.
Init ==
    /\ listening \in BOOLEAN /\ remembered = listening
    /\ socket = [p \in Peers |-> "None"] /\ session = [p \in Peers |-> "None"]
    /\ fileName \in [Peers -> FileNames]
    /\ received = [p \in Peers |-> 0] /\ sent = [p \in Peers |-> 0]
    /\ questions = <<>>
    /\ files = [n \in FileNames |-> NoFile] /\ plan = NoFile
    /\ switches = 0

Question(about, p) == [about |-> about, peer |-> p]

-----------------------------------------------------------------------------
(* Switching it on and off.  Menus cannot be reached behind a question.      *)

Switching ==
    /\ questions = <<>> /\ switches < MaxSwitches /\ switches' = switches + 1
    /\ UNCHANGED <<session, fileName, received, sent, questions, files, plan>>

\* startListening(): the servers are given up if one of them fails.
StartListening ==
    /\ ~listening /\ Switching
    /\ listening' \in BOOLEAN /\ remembered' = listening'
    /\ UNCHANGED socket

\* stopListening() deletes the server; the sockets of nextPendingConnection()
\* are its children.
StopListening ==
    /\ listening /\ Switching
    /\ listening' = FALSE /\ remembered' = FALSE
    /\ socket' = [p \in Peers |-> IF socket[p] \in {"Open", "Left"} THEN "Deleted"
                                  ELSE socket[p]]

\* The app ends, at any time, and is started again.  A QSaveFile that was not
\* committed leaves nothing behind.
Restart ==
    /\ switches < MaxSwitches /\ switches' = switches + 1
    /\ \/ remembered /\ listening' \in BOOLEAN
       \/ ~remembered /\ listening' = FALSE
    /\ remembered' = listening'
    /\ socket' = [p \in Peers |-> IF socket[p] = "None" THEN "None" ELSE "Deleted"]
    /\ session' = [p \in Peers |-> "None"]
    /\ questions' = <<>> /\ plan' = NoFile
    /\ UNCHANGED <<fileName, received, sent, files>>

-----------------------------------------------------------------------------
(* A session.  Each step sets the state, the socket and the questions: the   *)
(* session guard runs cancel() before the state guard emits stateChanged(),  *)
(* which asks the question.                                                  *)

Becomes(p, state) == session' = [session EXCEPT ![p] = state]
Cancel(p)         == socket' = [socket EXCEPT ![p] = "Closed"]
Ask(about, p)     == questions' = <<Question(about, p)>> \o questions

Sharing == <<listening, remembered, switches>>

\* onTcpConnected(): there is a session for each socket.
PeerConnects(p) ==
    /\ listening /\ socket[p] = "None"
    /\ socket' = [socket EXCEPT ![p] = "Open"]
    /\ Becomes(p, "Connected")
    /\ UNCHANGED <<Sharing, fileName, received, sent, questions, files, plan>>

\* startTransfer(): a valid request, complete in one segment.
OfferFile(p) ==
    /\ session[p] = "Connected" /\ socket[p] = "Open"
    /\ Becomes(p, "Started")
    /\ Ask("Offer", p)
    /\ UNCHANGED <<Sharing, socket, fileName, received, sent, files, plan>>

\* startTransfer(): anything else; a request that comes in two segments is one.
SendNonsense(p) ==
    /\ session[p] = "Connected" /\ socket[p] = "Open"
    /\ Cancel(p)
    /\ UNCHANGED <<Sharing, session, fileName, received, sent, questions, files, plan>>

\* accept(): "install" is written, which fails if the peer has left.
AcceptFile(p) ==
    \/ socket[p] = "Open" /\ Becomes(p, "Accepted") /\ UNCHANGED socket
    \/ socket[p] = "Left" /\ Cancel(p) /\ UNCHANGED session

\* reject()
RejectFile(p) == Becomes(p, "Rejected") /\ Cancel(p)

\* onFileTransferRequested(): the user answers.
AnswerOffer ==
    /\ questions # <<>> /\ Head(questions).about = "Offer"
    /\ LET p == Head(questions).peer IN AcceptFile(p) \/ RejectFile(p)
    /\ questions' = Tail(questions)
    /\ UNCHANGED <<Sharing, fileName, received, sent, files, plan>>

\* The loop of receiveFile() reads chunks until it has what was announced: the
\* last one may reach beyond.
Taken(total, available) ==
    LET chunks == (FileSize - total + ChunkSize - 1) \div ChunkSize
    IN  IF available < chunks * ChunkSize THEN available ELSE chunks * ChunkSize

\* A slip: off by one, one more unit is waited for.
WholeBeyond(total) == total > FileSize
\* totalBytesReceived < fileInfo.fileSize(), else it is done
Whole(total) == total >= FileSize

\* receiveFile(): there is more data to come.
ReceiveMore(p) ==
    /\ session[p] = "Accepted" /\ socket[p] = "Open"
    /\ \E n \in 1..MaxSent - sent[p] :
           /\ sent' = [sent EXCEPT ![p] = @ + n]
           /\ received' = [received EXCEPT ![p] = @ + Taken(@, n)]
    /\ ~Whole(received'[p])
    /\ UNCHANGED <<Sharing, socket, session, fileName, questions, files, plan>>

\* receiveFile(): the file is complete and commit() puts it in place, which may
\* fail without notice.
ReceiveLast(p) ==
    /\ session[p] = "Accepted" /\ socket[p] = "Open"
    /\ \E n \in 1..MaxSent - sent[p] :
           /\ sent' = [sent EXCEPT ![p] = @ + n]
           /\ received' = [received EXCEPT ![p] = @ + Taken(@, n)]
    /\ Whole(received'[p])
    /\ \/ files' = [files EXCEPT ![fileName[p]] = [of |-> p, size |-> received'[p]]]
       \/ UNCHANGED files
    /\ Cancel(p) /\ Becomes(p, "Finished") /\ Ask("Finished", p)
    /\ UNCHANGED <<Sharing, fileName, plan>>

\* A slip of reportError(): what has been received so far is put in place.
KeepWhatCame(p) == [files EXCEPT ![fileName[p]] = [of |-> p, size |-> received[p]]]
\* reportError() commits nothing.
GiveUp(p) == files

\* receiveFile(): the file cannot be opened or written; reportError() makes that
\* the end of the transfer, which is told like any other.
ReceiveFails(p) ==
    /\ session[p] = "Accepted" /\ socket[p] = "Open" /\ sent[p] < MaxSent
    /\ sent' = [sent EXCEPT ![p] = @ + 1]
    /\ files' = GiveUp(p)
    /\ Cancel(p) /\ Becomes(p, "Finished") /\ Ask("Finished", p)
    /\ UNCHANGED <<Sharing, fileName, received, plan>>

\* The peer closes the connection: nobody listens to that.
PeerLeaves(p) ==
    /\ socket[p] = "Open"
    /\ socket' = [socket EXCEPT ![p] = "Left"]
    /\ UNCHANGED <<Sharing, session, fileName, received, sent, questions, files, plan>>

\* onFileSharingFinished(): the user may open the file of that name.
AnswerFinished ==
    /\ questions # <<>> /\ Head(questions).about = "Finished"
    /\ LET file == files[fileName[Head(questions).peer]]
       IN  plan' \in {plan, IF file = NoFile THEN plan ELSE file}
    /\ questions' = Tail(questions)
    /\ UNCHANGED <<Sharing, socket, session, fileName, received, sent, files>>

Next ==
    \/ \E p \in Peers : \/ PeerConnects(p) \/ OfferFile(p) \/ SendNonsense(p)
                        \/ ReceiveMore(p) \/ ReceiveLast(p) \/ ReceiveFails(p)
                        \/ PeerLeaves(p)
    \/ AnswerOffer \/ AnswerFinished
    \/ StartListening \/ StopListening \/ Restart

Spec == Init /\ [][Next]_vars

\* A peer whose file is wanted sends all of it.
Fairness == \A p \in Peers : WF_vars(ReceiveMore(p) \/ ReceiveLast(p))

FairSpec == Spec /\ Fairness

-----------------------------------------------------------------------------
(* Properties.                                                               *)

\* Every variable has its type.
TypeOK ==
    /\ {listening, remembered} \subseteq BOOLEAN
    /\ socket \in [Peers -> {"None", "Open", "Left", "Closed", "Deleted"}]
    /\ session \in [Peers -> States \union {"None"}]
    /\ fileName \in [Peers -> FileNames]
    /\ received \in [Peers -> 0..MaxSent] /\ sent \in [Peers -> 0..MaxSent]
    /\ questions \in Seq([about : {"Offer", "Finished"}, peer : Peers])
    /\ files \in [FileNames -> Files] /\ plan \in Files
    /\ switches \in 0..MaxSwitches

\* However a transfer ends, and whatever other transfers do to the same name, a
\* file in place is as long as it was announced (receiveFile() and QSaveFile).
NeverPartial ==
    \A file \in {files[n] : n \in FileNames} \union {plan} :
        file # NoFile => file.size >= FileSize /\ file.size <= sent[file.of]

\* An accepted transfer comes to its end, other questions and transfers
\* notwithstanding, unless the peer leaves or its socket is deleted.
TransfersEnd ==
    \A p \in Peers : session[p] = "Accepted" ~>
                         session[p] = "Finished" \/ socket[p] \in {"Left", "Deleted"}

\* z21appfilesharing.cpp:328, of stopListening(): "do not clear old sessions: we
\* do not want accepted file transfers to be aborted".
AcceptedIsNotAborted ==
    \A p \in Peers : session[p] = "Accepted" => socket[p] # "Deleted"
=============================================================================
