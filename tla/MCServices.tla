----------------------------- MODULE MCServices -----------------------------
(***************************************************************************)
(* The parts whose correctness is about data that is put together from its *)
(* pieces, for TLC: files, logs and the tree of windows. part says which   *)
(* of them a behaviour is about; the others rest where they begin.         *)
(***************************************************************************)
EXTENDS Naturals, Sequences, FiniteSets

VARIABLES
    part,
    ftpOp, ftpQueue, ftpAborted, ftpRun, ftpTx, ftpSeq, ftpDisposed, ftpServer, ftpToServer, ftpToClient,
    logCall, logCache, logActive, logErasing, logDisposed, logLogs, logAir, logChanges,
    worRoot, worCounter, worMaximized, worWindows, worReloads, worClash

ftpVars == <<ftpOp, ftpQueue, ftpAborted, ftpRun, ftpTx, ftpSeq, ftpDisposed, ftpServer,
    ftpToServer, ftpToClient>>
logVars == <<logCall, logCache, logActive, logErasing, logDisposed, logLogs, logAir, logChanges>>
worVars == <<worRoot, worCounter, worMaximized, worWindows, worReloads, worClash>>

CONSTANTS o1, o2

Server(burst, counts, tells) == [burst |-> burst, counts |-> counts, tells |-> tells]

\* One call against every kind of server, with requests sent again; and two
\* calls one after the other, where the replies of the first meet the second.
FtpOne == INSTANCE FtpClient WITH
    Ops <- {o1}, Kinds <- {"list", "read", "write", "remove"}, Sizes <- {0, 3, 4}, Chunk <- 2,
    MaxRetries <- 1, SeqRange <- 16, MaxBurst <- 2, MaxFlight <- 1,
    Servers <- {Server("flag", TRUE, TRUE), Server("nak", FALSE, FALSE),
                Server("none", FALSE, FALSE), Server("flag", FALSE, FALSE)},
    op <- ftpOp, queue <- ftpQueue, aborted <- ftpAborted, run <- ftpRun, tx <- ftpTx, seq <- ftpSeq,
    disposed <- ftpDisposed, server <- ftpServer, toServer <- ftpToServer, toClient <- ftpToClient
FtpTwo == INSTANCE FtpClient WITH
    Ops <- {o1, o2}, Kinds <- {"list", "read", "write", "remove"}, Sizes <- {3}, Chunk <- 2,
    MaxRetries <- 0, SeqRange <- 16, MaxBurst <- 2, MaxFlight <- 1,
    Servers <- {Server("flag", TRUE, TRUE)},
    op <- ftpOp, queue <- ftpQueue, aborted <- ftpAborted, run <- ftpRun, tx <- ftpTx, seq <- ftpSeq,
    disposed <- ftpDisposed, server <- ftpServer, toServer <- ftpToServer, toClient <- ftpToClient

Log == INSTANCE LogClient WITH
    Ops <- {o1}, Systems <- {1}, Ids <- {1, 2}, MaxSize <- 3, Chunk <- 2, MaxStalls <- 1, MaxChanges <- 1,
    call <- logCall, cache <- logCache, active <- logActive, erasing <- logErasing,
    disposed <- logDisposed, logs <- logLogs, air <- logAir, changes <- logChanges

Wor == INSTANCE Workspaces WITH
    MaxPanels <- 3, MaxNodes <- 4, MaxReloads <- 1,
    root <- worRoot, counter <- worCounter, maximized <- worMaximized, windows <- worWindows,
    reloads <- worReloads, clash <- worClash

-----------------------------------------------------------------------------
FtpRests == Len(ftpServer.file) = 3 /\ ftpServer.traits = Server("flag", TRUE, TRUE)
LogRests == logLogs[1] = [i \in {1, 2} |-> Log!None]

Init ==
    /\ part \in {"ftp", "ftpTwo", "log", "wor"}
    /\ IF part = "ftpTwo" THEN FtpTwo!Init ELSE FtpOne!Init
    /\ Log!Init /\ Wor!Init
    /\ part \in {"ftp", "ftpTwo"} \/ FtpRests
    /\ part = "log" \/ LogRests

FtpNext == (part = "ftp" /\ FtpOne!Next) \/ (part = "ftpTwo" /\ FtpTwo!Next)
Next ==
    \/ FtpNext /\ UNCHANGED <<part, logVars, worVars>>
    \/ part = "log" /\ Log!Next /\ UNCHANGED <<part, ftpVars, worVars>>
    \/ part = "wor" /\ Wor!Next /\ UNCHANGED <<part, ftpVars, logVars>>
vars == <<part, ftpVars, logVars, worVars>>
Spec == Init /\ [][Next]_vars

-----------------------------------------------------------------------------
\* Type correctness of the parts.
TypeOK ==
    /\ IF part = "ftpTwo" THEN FtpTwo!TypeOK ELSE FtpOne!TypeOK
    /\ Log!TypeOK /\ Wor!TypeOK

\* See FtpClient and LogClient: what a read, and what another call, may answer; the
\* bookkeeping of a download, and the lists and sizes.
FilesAreExact ==
    /\ [][IF part = "ftpTwo" THEN FtpTwo!ReadStep /\ FtpTwo!DoneStep
                             ELSE FtpOne!ReadStep /\ FtpOne!DoneStep]_vars
    /\ [](/\ Log!RangesAreExact /\ Log!DownloadIsWhole
          /\ Log!ListIsTheVehicles /\ Log!SizeIsTheLogs)

\* See Workspaces: windows that stay, trees that can be drawn, tabs that stay in sight.
WindowsStay == [](Wor!NoWindowLost /\ Wor!TreesAreDrawable) /\ Wor!TabStays
=============================================================================
