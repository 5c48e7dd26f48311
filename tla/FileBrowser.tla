---------------------------- MODULE FileBrowser -----------------------------
(***************************************************************************)
(* The file windows of GUI_APP/WIN/file_win.c over the window handling of  *)
(* GUI_APP/Src/app.c, beside DFSsave of dht11.c, which goes on writing the *)
(* card.                                                                   *)
(*                                                                         *)
(* Each window covers the screen, so only the last one gets clicks.  The   *)
(* folder window "Folder1" lists the days, "Folder2" the files of the day  *)
(* clicked, and "text" shows the file clicked.  They share the static      *)
(* variables path and writebuffer, which outlive the windows.              *)
(***************************************************************************)
EXTENDS Integers, Sequences, SequencesExt

CONSTANTS
    Days, Files,    \* names of folders under /sdcard, and of files in them
    BufferSize,     \* bytes of writebuffer: 4096 in the code
    MaxSize,        \* longest file: 4068, by FilesFitRing of Recorder
    OpenMayFail,    \* TRUE: the card may refuse an open
    MaxClicks       \* bound of the model: windows opened in a behaviour

ASSUME BrowserAssumption ==
    /\ BufferSize \in Nat /\ MaxSize \in Nat /\ MaxSize < BufferSize
    /\ OpenMayFail \in BOOLEAN /\ MaxClicks \in Nat

VARIABLES
    card,           \* [day -> [file -> size]]: the days and files there are
    windows,        \* the windows on the screen, the last one on top
    path,           \* what stands in path after "/sdcard"
    writebuffer,    \* text_win_create's buffer up to its first zero byte, each
                    \* byte as the <<day, file>> it was read from
    opened,         \* between open and read: the size of the file, or -1
    clicked,        \* history: the file clicked last
    clicks          \* history: windows opened so far

vars == <<card, windows, path, writebuffer, opened, clicked, clicks>>

NotOpen == -1

Top == IF windows = <<>> THEN [kind |-> "main"] ELSE windows[Len(windows)]

Init ==
    /\ card = [d \in {} |-> 0]
    /\ windows = <<>> /\ path = <<>> /\ writebuffer = <<>>
    /\ opened = NotOpen /\ clicked = <<>> /\ clicks = 0

-----------------------------------------------------------------------------
(* DFSsave.                                                                *)

\* (Variant of Save: records are appended, and files outgrow the ring.)
SaveAppending ==
    \E d \in Days, f \in Files :
        /\ card' = [e \in DOMAIN card \cup {d} |->
                      IF e # d THEN card[e]
                      ELSE [g \in (IF d \in DOMAIN card THEN DOMAIN card[d] ELSE {}) \cup {f} |->
                              IF g # f THEN card[d][g] ELSE BufferSize]]
        /\ UNCHANGED <<windows, path, writebuffer, opened, clicked, clicks>>

\* A save makes the day's folder and the minute's file, or writes a file that
\* is there again from its start; it never makes one shorter.
Save ==
    \E d \in Days, f \in Files, size \in 1 .. MaxSize :
        /\ ~(d \in DOMAIN card /\ f \in DOMAIN card[d] /\ card[d][f] > size)
        /\ card' = [e \in DOMAIN card \cup {d} |->
                      IF e # d THEN card[e]
                      ELSE [g \in (IF d \in DOMAIN card THEN DOMAIN card[d] ELSE {}) \cup {f} |->
                              IF g # f THEN card[d][g] ELSE size]]
        /\ UNCHANGED <<windows, path, writebuffer, opened, clicked, clicks>>

-----------------------------------------------------------------------------
(* The windows.                                                            *)

\* file_win_create lists /sdcard.  (A directory that does not open lists
\* nothing: readdir's fd_get refuses what it finds through a null pointer.)
OpenBrowser ==
    /\ windows = <<>> /\ clicks < MaxClicks
    /\ windows' = <<[kind |-> "Folder1", entries |-> DOMAIN card]>>
    /\ clicks' = clicks + 1
    /\ UNCHANGED <<card, path, writebuffer, opened, clicked>>

\* (Variant of ClickDay: the day is put behind what path holds.)
ClickDayAppend ==
    /\ Top.kind = "Folder1" /\ clicks < MaxClicks
    /\ \E d \in Top.entries :
          /\ path' = Append(path, d)
          /\ windows' = Append(windows, [kind |-> "Folder2", day |-> d,
                                         entries |-> DOMAIN card[d]])
    /\ clicks' = clicks + 1
    /\ UNCHANGED <<card, writebuffer, opened, clicked>>

\* event_handler: path is made from "/sdcard/%s", and dirn_win_create lists it.
ClickDay ==
    /\ Top.kind = "Folder1" /\ clicks < MaxClicks
    /\ \E d \in Top.entries :
          /\ path' = <<d>>
          /\ windows' = Append(windows, [kind |-> "Folder2", day |-> d,
                                         entries |-> DOMAIN card[d]])
    /\ clicks' = clicks + 1
    /\ UNCHANGED <<card, writebuffer, opened, clicked>>

\* The size of the file path names, if it names one.
SizeAt(p) ==
    IF Len(p) = 2 /\ p[1] \in DOMAIN card
    THEN IF p[2] \in DOMAIN card[p[1]] THEN card[p[1]][p[2]] ELSE NotOpen
    ELSE NotOpen

\* event_handler1: path is made from "%s/%s" of path itself (undefined in C;
\* the library's sprintf copies byte by byte, so the name goes behind what path
\* holds), the window is created and open is called.  An open file keeps the size it had.
ClickFile ==
    /\ Top.kind = "Folder2" /\ clicks < MaxClicks
    /\ \E f \in Top.entries :
          /\ path' = Append(path, f)
          /\ clicked' = <<Top.day, f>>
    /\ windows' = Append(windows, [kind |-> "opening"])
    /\ \/ opened' = SizeAt(path')
       \/ OpenMayFail /\ opened' = NotOpen
    /\ clicks' = clicks + 1
    /\ UNCHANGED <<card, writebuffer>>

\* (Variant of Fill: the file is read behind the text that is there.)
FillBehind(size, from) ==
    [i \in 1 .. (IF Len(writebuffer) + size < BufferSize
                 THEN Len(writebuffer) + size ELSE BufferSize - 1) |->
       IF i <= Len(writebuffer) THEN writebuffer[i] ELSE from]

\* read() puts size bytes at the start of the buffer and no zero behind them.
Fill(size, from) ==
    [i \in 1 .. size |-> from] \o SubSeq(writebuffer, size + 1, Len(writebuffer))

\* read, close and lv_ta_set_text: the text is the buffer up to its first zero.
ReadFile ==
    /\ Top.kind = "opening"
    /\ writebuffer' = IF opened = NotOpen THEN writebuffer ELSE Fill(opened, path)
    /\ windows' = [windows EXCEPT ![Len(windows)] =
                     [kind |-> "text", text |-> writebuffer', size |-> opened]]
    /\ opened' = NotOpen
    /\ UNCHANGED <<card, path, clicked, clicks>>

\* back_btn_event_handler deletes the window on top and nothing else.
Back ==
    /\ windows # <<>> /\ Top.kind # "opening"
    /\ windows' = Front(windows)
    /\ UNCHANGED <<card, path, writebuffer, opened, clicked, clicks>>

-----------------------------------------------------------------------------
Next == Save \/ OpenBrowser \/ ClickDay \/ ClickFile \/ ReadFile \/ Back

Spec == Init /\ [][Next]_vars

-----------------------------------------------------------------------------
(* Properties.                                                             *)

\* A text never runs past the buffer, whatever files are opened one after the
\* other: the longest file leaves a zero at the end of writebuffer, which no
\* read ever overwrites (dht11.c keeps files within 4068 bytes, file_win.c:125
\* has 4096).
TextEnds == Len(writebuffer) < BufferSize

\* While the files of a day are on the screen, path begins with that day and
\* nothing else, whatever was opened and left before.
PathStartsWithDay ==
    \A w \in DOMAIN windows :
        windows[w].kind = "Folder2" => path # <<>> /\ path[1] = windows[w].day

\* A text that was read shows that file up to its size, though a save may have
\* come between the list, the click, the open and the read.
TextStartsWithFile ==
    Top.kind = "text" /\ Top.size # NotOpen =>
        /\ path = clicked
        /\ Len(Top.text) >= Top.size
        /\ \A i \in 1 .. Top.size : Top.text[i] = clicked

\* What the text window shows is inside its buffer and is the file whose path was
\* made, as far as that file goes, whatever windows, files and saves went before.
FileShown == PathStartsWithDay /\ TextEnds /\ TextStartsWithFile

-----------------------------------------------------------------------------
(* What the README says, and the code does not do.                         *)

\* README.md:21 lists the viewing of the file system: with a card that opens
\* every file, clicking a file opens that file.
ClickOpensFile == Top.kind = "text" => path = clicked

\* README.md:21 again: a file that was opened is shown, and nothing else.
TextIsFile == Top.kind = "text" /\ Top.size # NotOpen => Len(Top.text) = Top.size
=============================================================================
