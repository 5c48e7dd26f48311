---------------------------- MODULE WindowsProofs ---------------------------
(***************************************************************************)
(* The windows, the tasks that write to them and the text of the file      *)
(* window, for every number of days, files and clicks and every length of  *)
(* the files and the buffer.                                               *)
(***************************************************************************)
EXTENDS Windows, TLAPS

-----------------------------------------------------------------------------
(* The stack of windows: nothing, one window of an item, or the folders,   *)
(* the files of a day and one of them, from the bottom up.                 *)

Names == Days \cup Files

Texts == Seq(Seq(Names))

Window == [kind : Items]
          \cup [kind : {"Folder1"}, entries : SUBSET Days]
          \cup [kind : {"Folder2"}, day : Days, entries : SUBSET Files]
          \cup [kind : {"opening"}]
          \cup [kind : {"text"}, text : Texts, size : Int]

KindsAt(i) == IF i = 1 THEN Items \cup {"Folder1"}
              ELSE IF i = 2 THEN {"Folder2"} ELSE {"opening", "text"}

Stacked ==
    /\ windows \in Seq(Window) /\ Len(windows) <= 3
    /\ \A i \in DOMAIN windows : windows[i].kind \in KindsAt(i)
    /\ Len(windows) >= 2 => windows[1].kind = "Folder1"

LEMMA Stack ==
    ASSUME Stacked
    PROVE  /\ windows \in Seq(Window) /\ Len(windows) \in 0 .. 3 /\ DOMAIN windows = 1 .. Len(windows)
           /\ windows = <<>> <=> Len(windows) = 0
<1>1. windows \in Seq(Window) /\ Len(windows) <= 3
  BY DEF Stacked
<1>2. Len(windows) \in Nat /\ DOMAIN windows = 1 .. Len(windows)
  BY <1>1
<1>3. windows = <<>> <=> Len(windows) = 0
  BY <1>1
<1>4. Len(windows) \in 0 .. 3
  BY <1>1, <1>2
<1> QED
  BY <1>1, <1>2, <1>3, <1>4

\* What kind the top window is tells how many there are.
Told ==
    /\ Len(windows) \in 0 .. 3 /\ DOMAIN windows = 1 .. Len(windows)
    /\ windows = <<>> <=> Len(windows) = 0
    /\ windows # <<>> => Top = windows[Len(windows)] /\ Top \in Window
    /\ windows = <<>> => Top.kind = "main"
    /\ Top.kind = "Folder1" => Len(windows) = 1
    /\ Top.kind = "Folder2" => Len(windows) = 2
    /\ Top.kind \in {"opening", "text"} => Len(windows) = 3
    /\ Len(windows) = 3 => Top.kind \in {"opening", "text"}

LEMMA TopTells == Stacked => Told
<1> SUFFICES ASSUME Stacked PROVE Told
  OBVIOUS
<1>1. /\ Len(windows) \in 0 .. 3 /\ DOMAIN windows = 1 .. Len(windows)
      /\ windows = <<>> <=> Len(windows) = 0
  BY Stack
<1>2. windows # <<>> => /\ Top = windows[Len(windows)] /\ Top \in Window
                        /\ Top.kind \in KindsAt(Len(windows))
  BY <1>1 DEF Top, Stacked
<1>3. windows = <<>> => Top.kind = "main"
  BY DEF Top
<1>4. CASE Len(windows) = 0
  BY <1>1, <1>3, <1>4 DEF Told
<1>5. CASE Len(windows) = 1
  BY <1>1, <1>2, <1>5 DEF KindsAt, Items, Told
<1>6. CASE Len(windows) = 2
  BY <1>1, <1>2, <1>6 DEF KindsAt, Told
<1>7. CASE Len(windows) = 3
  BY <1>1, <1>2, <1>7 DEF KindsAt, Told
<1> QED
  BY <1>1, <1>2, <1>3, <1>4, <1>5, <1>6, <1>7 DEF Told

\* The fields of a window.
LEMMA Fields ==
    ASSUME NEW w \in Window
    PROVE  /\ w.kind = "Folder1" => w.entries \subseteq Days
           /\ w.kind = "Folder2" => w.day \in Days /\ w.entries \subseteq Files
           /\ w.kind = "text" => w.text \in Texts /\ w.size \in Int
  BY DEF Window, Items

\* A list with one element replaced.
LEMMA Replaced ==
    ASSUME NEW S, NEW s \in Seq(S), NEW i \in DOMAIN s, NEW e \in S
    PROVE  /\ [s EXCEPT ![i] = e] \in Seq(S) /\ Len([s EXCEPT ![i] = e]) = Len(s)
           /\ DOMAIN [s EXCEPT ![i] = e] = DOMAIN s
  OBVIOUS

\* A window put on top of a stack it may stand on.
LEMMA PutOnTop ==
    ASSUME Stacked, NEW w \in Window, windows' = Append(windows, w), Len(windows) < 3,
           w.kind \in KindsAt(Len(windows) + 1), windows # <<>> => windows[1].kind = "Folder1"
    PROVE  /\ Stacked' /\ Top' = w /\ Len(windows') = Len(windows) + 1
           /\ windows'[Len(windows) + 1] = w
           /\ \A i \in DOMAIN windows : windows'[i] = windows[i] /\ i \in DOMAIN windows'
           /\ \A i \in DOMAIN windows' : i \in DOMAIN windows \/ i = Len(windows) + 1
<1>1. /\ windows \in Seq(Window) /\ Len(windows) \in 0 .. 3 /\ DOMAIN windows = 1 .. Len(windows)
      /\ windows = <<>> <=> Len(windows) = 0
  BY Stack
<1>2. /\ windows' \in Seq(Window) /\ Len(windows') = Len(windows) + 1
      /\ windows'[Len(windows) + 1] = w /\ DOMAIN windows' = 1 .. Len(windows) + 1
      /\ \A i \in DOMAIN windows : windows'[i] = windows[i]
  BY <1>1
<1>3. \A i \in DOMAIN windows' : i \in DOMAIN windows \/ i = Len(windows) + 1
  BY <1>1, <1>2
<1>4. \A i \in DOMAIN windows' : windows'[i].kind \in KindsAt(i)
  BY <1>2, <1>3 DEF Stacked
<1>5. Len(windows') >= 2 => windows'[1].kind = "Folder1"
  BY <1>1, <1>2
<1>6. Len(windows') <= 3
  BY <1>1, <1>2
<1>7. Top' = w
  <2>1. windows' # <<>>
    BY <1>1, <1>2
  <2> QED
    BY <1>2, <2>1 DEF Top
<1>8. \A i \in DOMAIN windows : i \in DOMAIN windows'
  BY <1>1, <1>2
<1> QED
  BY <1>2, <1>3, <1>4, <1>5, <1>6, <1>7, <1>8 DEF Stacked

\* The window on top deleted.
LEMMA TakeOffTop ==
    ASSUME Stacked, windows # <<>>, windows' = Front(windows)
    PROVE  /\ Stacked' /\ Len(windows') = Len(windows) - 1
           /\ \A i \in DOMAIN windows' : i \in DOMAIN windows /\ windows'[i] = windows[i]
           /\ \A i \in DOMAIN windows : i \in DOMAIN windows' \/ i = Len(windows)
<1>1. /\ windows \in Seq(Window) /\ Len(windows) \in 1 .. 3 /\ DOMAIN windows = 1 .. Len(windows)
  BY Stack
<1>2. windows' = SubSeq(windows, 1, Len(windows) - 1)
  BY DEF Front
<1>3. /\ windows' \in Seq(Window) /\ Len(windows') = Len(windows) - 1
      /\ DOMAIN windows' = 1 .. Len(windows) - 1
      /\ \A i \in DOMAIN windows' : windows'[i] = windows[i]
  BY <1>1, <1>2
<1>4. \A i \in DOMAIN windows' : i \in DOMAIN windows /\ windows'[i] = windows[i]
  BY <1>1, <1>3
<1>5. Len(windows') >= 2 => windows'[1].kind = "Folder1"
  BY <1>1, <1>3 DEF Stacked
<1>6. \A i \in DOMAIN windows : i \in DOMAIN windows' \/ i = Len(windows)
  BY <1>1, <1>3
<1> QED
  BY <1>1, <1>3, <1>4, <1>5, <1>6 DEF Stacked

\* The first window of a stack.
LEMMA PutFirst ==
    ASSUME NEW w \in Window, w.kind \in Items \cup {"Folder1"}, windows' = <<w>>
    PROVE  /\ Stacked' /\ Top' = w /\ Len(windows') = 1 /\ windows'[1] = w
           /\ DOMAIN windows' = {1}
<1>1. windows' \in Seq(Window) /\ Len(windows') = 1 /\ windows'[1] = w /\ DOMAIN windows' = {1}
  OBVIOUS
<1>2. windows' # <<>>
  BY <1>1
<1> QED
  BY <1>1, <1>2 DEF Stacked, KindsAt, Top

-----------------------------------------------------------------------------
(* The file windows.                                                       *)

CardOK ==
    /\ DOMAIN card \subseteq Days
    /\ \A d \in DOMAIN card :
          /\ DOMAIN card[d] \subseteq Files
          /\ \A f \in DOMAIN card[d] : card[d][f] \in 1 .. MaxSize

\* FileShown is inductive once it is known that an open file is the one clicked,
\* and that the folders on the screen are on the card.
FileInv ==
    /\ CardOK
    /\ path \in Seq(Names) /\ writebuffer \in Texts
    /\ opened \in {NotOpen} \cup 1 .. MaxSize
    /\ Top.kind = "opening" /\ opened # NotOpen => path = clicked
    /\ \A w \in DOMAIN windows : windows[w].kind = "Folder1" => windows[w].entries \subseteq DOMAIN card
    /\ FileShown

\* A read shows the file up to its size and keeps the text inside the buffer.
LEMMA FillType ==
    ASSUME writebuffer \in Texts, TextEnds, NEW size \in 1 .. MaxSize, NEW from \in Seq(Names)
    PROVE  /\ Fill(size, from) \in Texts /\ Len(Fill(size, from)) < BufferSize
           /\ Len(Fill(size, from)) >= size
           /\ \A i \in 1 .. size : Fill(size, from)[i] = from
<1> DEFINE file == [i \in 1 .. size |-> from]
           rest == SubSeq(writebuffer, size + 1, Len(writebuffer))
<1>0. size \in Nat /\ size <= MaxSize /\ MaxSize < BufferSize /\ MaxSize \in Nat /\ BufferSize \in Nat
  BY BrowserAssumption
<1>1. file \in Texts /\ Len(file) = size /\ \A i \in 1 .. size : file[i] = from
  BY <1>0 DEF Texts
<1>2. rest \in Texts /\ Len(rest) = IF size + 1 <= Len(writebuffer) THEN Len(writebuffer) - size ELSE 0
  BY <1>0 DEF Texts
<1>3. Len(writebuffer) \in Nat /\ Len(writebuffer) < BufferSize
  BY DEF TextEnds, Texts
<1>4. Fill(size, from) = file \o rest
  BY DEF Fill
<1> HIDE DEF file, rest
<1> DEFINE text == file \o rest
<1>5. /\ text \in Texts /\ Len(text) = Len(file) + Len(rest) /\ Len(rest) \in Nat
      /\ \A i \in 1 .. Len(file) : text[i] = file[i]
  <2>1. file \in Seq(Seq(Names)) /\ rest \in Seq(Seq(Names))
    BY <1>1, <1>2 DEF Texts
  <2>2. text \in Seq(Seq(Names)) /\ Len(text) = Len(file) + Len(rest) /\ Len(rest) \in Nat
    BY <2>1
  <2>3. \A i \in 1 .. Len(file) : text[i] = file[i]
    BY <2>1
  <2> QED
    BY <2>2, <2>3 DEF Texts
<1> HIDE DEF text
<1>6. Len(text) >= size /\ Len(text) < BufferSize
  BY <1>0, <1>1, <1>2, <1>3, <1>5
<1>7. \A i \in 1 .. size : text[i] = from
  BY <1>1, <1>5
<1> QED
  BY <1>4, <1>5, <1>6, <1>7 DEF text


LEMMA FileInvStep ==
    ASSUME Stacked, FileInv, [WindowsNext]_winVars
    PROVE  Stacked' /\ FileInv'
<1>0. /\ CardOK /\ path \in Seq(Names) /\ writebuffer \in Texts
      /\ opened \in {NotOpen} \cup 1 .. MaxSize
      /\ Top.kind = "opening" /\ opened # NotOpen => path = clicked
      /\ \A w \in DOMAIN windows : windows[w].kind = "Folder1" => windows[w].entries \subseteq DOMAIN card
      /\ PathStartsWithDay /\ TextEnds /\ TextStartsWithFile
  BY DEF FileInv, FileShown
<1>s. /\ windows \in Seq(Window) /\ Len(windows) \in 0 .. 3 /\ DOMAIN windows = 1 .. Len(windows)
      /\ windows = <<>> <=> Len(windows) = 0
  BY Stack
<1>t. /\ windows # <<>> => Top = windows[Len(windows)] /\ Top \in Window
      /\ windows = <<>> => Top.kind = "main"
      /\ Top.kind = "Folder1" => Len(windows) = 1
      /\ Top.kind = "Folder2" => Len(windows) = 2
      /\ Top.kind \in {"opening", "text"} => Len(windows) = 3
      /\ Len(windows) = 3 => Top.kind \in {"opening", "text"}
  BY TopTells DEF Told
<1>1. ASSUME UNCHANGED <<windows, path, writebuffer, opened, clicked>>, CardOK',
             DOMAIN card \subseteq DOMAIN card'
      PROVE  Stacked' /\ FileInv'
  <2>1. Top' = Top /\ Stacked'
    BY <1>1 DEF Top, Stacked
  <2>2. PathStartsWithDay' /\ TextEnds' /\ TextStartsWithFile'
    BY <1>0, <1>1, <2>1 DEF PathStartsWithDay, TextEnds, TextStartsWithFile
  <2>3. \A w \in DOMAIN windows' : windows'[w].kind = "Folder1" => windows'[w].entries \subseteq DOMAIN card'
    BY <1>0, <1>1
  <2> QED
    BY <1>0, <1>1, <2>1, <2>2, <2>3 DEF FileInv, FileShown
<1>2. CASE UNCHANGED vars
  <2>1. UNCHANGED <<windows, path, writebuffer, opened, clicked, card>>
    BY <1>2 DEF vars
  <2>2. CardOK'
    BY <1>0, <2>1 DEF CardOK
  <2> QED
    BY <1>1, <2>1, <2>2
<1>3. CASE Save
  <2>1. PICK d \in Days, f \in Files, size \in 1 .. MaxSize :
            /\ card' = [e \in DOMAIN card \cup {d} |->
                          IF e # d THEN card[e]
                          ELSE [g \in (IF d \in DOMAIN card THEN DOMAIN card[d] ELSE {}) \cup {f} |->
                                  IF g # f THEN card[d][g] ELSE size]]
            /\ UNCHANGED <<windows, path, writebuffer, opened, clicked>>
    BY <1>3 DEF Save
  <2>2. DOMAIN card' = DOMAIN card \cup {d}
    BY <2>1
  <2>3. ASSUME NEW e \in DOMAIN card'
        PROVE  DOMAIN card'[e] \subseteq Files /\ \A g \in DOMAIN card'[e] : card'[e][g] \in 1 .. MaxSize
    <3>1. CASE e # d
      <4>1. e \in DOMAIN card /\ card'[e] = card[e]
        BY <2>1, <2>2, <3>1
      <4> QED
        BY <1>0, <4>1 DEF CardOK
    <3>2. CASE e = d
      <4> DEFINE old == IF d \in DOMAIN card THEN DOMAIN card[d] ELSE {}
      <4>1. card'[e] = [g \in old \cup {f} |-> IF g # f THEN card[d][g] ELSE size]
        BY <2>1, <2>2, <3>2
      <4>2. old \subseteq Files /\ \A g \in old : card[d][g] \in 1 .. MaxSize
        BY <1>0 DEF CardOK
      <4> HIDE DEF old
      <4> QED
        BY <4>1, <4>2
    <3> QED
      BY <3>1, <3>2
  <2>4. CardOK'
    BY <1>0, <2>2, <2>3 DEF CardOK
  <2> QED
    BY <1>1, <2>1, <2>2, <2>4
<1>4. CASE OpenBrowser
  <2> DEFINE w == [kind |-> "Folder1", entries |-> DOMAIN card]
  <2>1. windows' = <<w>> /\ UNCHANGED <<card, path, writebuffer, opened, clicked>>
    BY <1>4 DEF OpenBrowser
  <2>2. w \in Window
    BY <1>0 DEF Window, CardOK
  <2>3. w.kind = "Folder1" /\ w.entries = DOMAIN card
    OBVIOUS
  <2> HIDE DEF w
  <2>4. Stacked' /\ Top' = w /\ Len(windows') = 1 /\ windows'[1] = w /\ DOMAIN windows' = {1}
    BY <2>1, <2>2, <2>3, PutFirst
  <2>5. PathStartsWithDay' /\ TextEnds' /\ TextStartsWithFile'
    BY <1>0, <2>1, <2>3, <2>4 DEF PathStartsWithDay, TextEnds, TextStartsWithFile
  <2>6. CardOK'
    BY <1>0, <2>1 DEF CardOK
  <2> QED
    BY <1>0, <2>1, <2>3, <2>4, <2>5, <2>6 DEF FileInv, FileShown
<1>5. CASE ClickDay
  <2>1. PICK d \in Top.entries :
            /\ path' = <<d>>
            /\ windows' = Append(windows, [kind |-> "Folder2", day |-> d, entries |-> DOMAIN card[d]])
    BY <1>5 DEF ClickDay
  <2>2. /\ Top.kind = "Folder1" /\ UNCHANGED <<card, writebuffer, opened, clicked>>
    BY <1>5 DEF ClickDay
  <2>3. Len(windows) = 1 /\ Top = windows[1] /\ 1 \in DOMAIN windows /\ windows # <<>>
    <3>1. Len(windows) = 1
      BY <1>t, <2>2
    <3>2. windows # <<>>
      BY <1>s, <3>1
    <3> QED
      BY <1>s, <1>t, <3>1, <3>2
  <2>4. d \in DOMAIN card /\ d \in Days /\ DOMAIN card[d] \subseteq Files
    BY <1>0, <2>2, <2>3 DEF CardOK
  <2> DEFINE w == [kind |-> "Folder2", day |-> d, entries |-> DOMAIN card[d]]
  <2>5. w \in Window
    BY <2>4 DEF Window
  <2>6. w.kind = "Folder2" /\ w.day = d /\ windows' = Append(windows, w)
    BY <2>1
  <2> HIDE DEF w
  <2>7. w.kind \in KindsAt(Len(windows) + 1) /\ windows[1].kind = "Folder1"
    BY <2>2, <2>3, <2>6 DEF KindsAt
  <2>8. /\ Stacked' /\ Top' = w /\ windows'[2] = w
        /\ \A i \in DOMAIN windows' : (i \in DOMAIN windows /\ windows'[i] = windows[i]) \/ i = 2
    BY <2>3, <2>5, <2>6, <2>7, PutOnTop
  <2>9. path' # <<>> /\ path'[1] = d /\ path' \in Seq(Names)
    BY <2>1, <2>4 DEF Names
  <2>10. ASSUME NEW i \in DOMAIN windows', windows'[i].kind = "Folder2" PROVE windows'[i].day = d
    <3>1. i \in DOMAIN windows => windows'[i].kind = "Folder1" \/ i = 2
      BY <1>s, <2>2, <2>3, <2>8
    <3> QED
      BY <2>6, <2>8, <2>10, <3>1
  <2>11. PathStartsWithDay'
    BY <2>9, <2>10 DEF PathStartsWithDay
  <2>12. TextEnds' /\ TextStartsWithFile'
    BY <1>0, <2>2, <2>6, <2>8 DEF TextEnds, TextStartsWithFile
  <2>13. \A i \in DOMAIN windows' : windows'[i].kind = "Folder1" => windows'[i].entries \subseteq DOMAIN card'
    BY <1>0, <2>2, <2>6, <2>8
  <2>14. CardOK'
    BY <1>0, <2>2 DEF CardOK
  <2> QED
    BY <1>0, <2>2, <2>6, <2>8, <2>9, <2>11, <2>12, <2>13, <2>14 DEF FileInv, FileShown
<1>6. CASE ClickFile
  <2>1. PICK f \in Top.entries : path' = Append(path, f) /\ clicked' = <<Top.day, f>>
    BY <1>6 DEF ClickFile
  <2>2. /\ Top.kind = "Folder2" /\ windows' = Append(windows, [kind |-> "opening"])
        /\ opened' = SizeAt(path') \/ opened' = NotOpen
        /\ UNCHANGED <<card, writebuffer>>
    BY <1>6 DEF ClickFile
  <2>3. Len(windows) = 2 /\ Top = windows[2] /\ 2 \in DOMAIN windows /\ windows # <<>> /\ Top \in Window
    BY <1>s, <1>t, <2>2
  <2>4. Top.day \in Days /\ f \in Files
    BY <2>2, <2>3, Fields
  <2>5. path # <<>> /\ path[1] = Top.day
    BY <1>0, <2>2, <2>3 DEF PathStartsWithDay
  <2>6. f \in Names
    BY <2>4 DEF Names
  <2>7. /\ path' \in Seq(Names) /\ Len(path') = Len(path) + 1 /\ Len(path) \in Nat /\ Len(path) # 0
        /\ path'[Len(path) + 1] = f /\ path'[1] = path[1] /\ path' # <<>>
    BY <1>0, <2>1, <2>5, <2>6
  <2>8. opened' # NotOpen => path' = clicked'
    <3>1. ASSUME Len(path') = 2 PROVE path' = <<Top.day, f>>
      <4> DEFINE n == Len(path)
      <4>1. n \in Nat /\ n + 1 = 2
        BY <2>7, <3>1
      <4> HIDE DEF n
      <4>2. n = 1
        BY <4>1
      <4>3. path'[2] = f
        BY <2>7, <4>2 DEF n
      <4>4. path'[1] = Top.day
        BY <2>5, <2>7
      <4> DEFINE q == path'
      <4>5. q \in Seq(Names) /\ Len(q) = 2 /\ q[1] = Top.day /\ q[2] = f
        BY <2>7, <3>1, <4>3, <4>4
      <4> HIDE DEF q
      <4>6. q = <<Top.day, f>>
        BY <4>5
      <4> QED
        BY <4>6 DEF q
    <3>2. Len(path') # 2 => SizeAt(path') = NotOpen
      BY DEF SizeAt
    <3> QED
      BY <2>1, <2>2, <3>1, <3>2
  <2>9. opened' \in {NotOpen} \cup 1 .. MaxSize
    <3>1. SizeAt(path') \in {NotOpen} \cup 1 .. MaxSize
      BY <1>0 DEF SizeAt, CardOK
    <3> QED
      BY <2>2, <3>1
  <2> DEFINE w == [kind |-> "opening"]
  <2>10. w \in Window /\ w.kind = "opening" /\ windows' = Append(windows, w)
    BY <2>2 DEF Window
  <2> HIDE DEF w
  <2>11. w.kind \in KindsAt(Len(windows) + 1) /\ windows[1].kind = "Folder1"
    BY <2>3, <2>10 DEF KindsAt, Stacked
  <2>12. /\ Stacked' /\ Top' = w /\ windows'[3] = w
         /\ \A i \in DOMAIN windows' : (i \in DOMAIN windows /\ windows'[i] = windows[i]) \/ i = 3
    BY <2>3, <2>10, <2>11, PutOnTop
  <2>13. PathStartsWithDay'
    BY <1>0, <2>7, <2>10, <2>12 DEF PathStartsWithDay
  <2>14. TextEnds' /\ TextStartsWithFile'
    BY <1>0, <2>2, <2>10, <2>12 DEF TextEnds, TextStartsWithFile
  <2>15. \A i \in DOMAIN windows' : windows'[i].kind = "Folder1" => windows'[i].entries \subseteq DOMAIN card'
    BY <1>0, <2>2, <2>10, <2>12
  <2>16. CardOK'
    BY <1>0, <2>2 DEF CardOK
  <2> QED
    BY <1>0, <2>2, <2>7, <2>8, <2>9, <2>12, <2>13, <2>14, <2>15, <2>16 DEF FileInv, FileShown
<1>7. CASE ReadFile
  <2> DEFINE w == [kind |-> "text", text |-> writebuffer', size |-> opened]
  <2>1. /\ Top.kind = "opening" /\ opened' = NotOpen /\ UNCHANGED <<card, path, clicked>>
        /\ writebuffer' = IF opened = NotOpen THEN writebuffer ELSE Fill(opened, path)
        /\ windows' = [windows EXCEPT ![Len(windows)] = w]
    BY <1>7 DEF ReadFile
  <2>2. Len(windows) = 3 /\ Top = windows[3] /\ 3 \in DOMAIN windows
    <3>1. Len(windows) = 3
      BY <1>t, <2>1
    <3>2. windows # <<>>
      BY <1>s, <3>1
    <3> QED
      BY <1>s, <1>t, <3>1, <3>2
  <2>3. /\ writebuffer' \in Texts /\ TextEnds'
        /\ opened # NotOpen => /\ Len(writebuffer') >= opened
                               /\ \A i \in 1 .. opened : writebuffer'[i] = path
    <3>1. CASE opened = NotOpen
      BY <1>0, <2>1, <3>1 DEF TextEnds
    <3>2. CASE opened # NotOpen
      <4>1. opened \in 1 .. MaxSize /\ writebuffer' = Fill(opened, path)
        BY <1>0, <2>1, <3>2
      <4> QED
        BY <1>0, <4>1, FillType DEF TextEnds
    <3> QED
      BY <3>1, <3>2
  <2>4. w \in Window
    <3>1. opened \in Int
      BY <1>0, BrowserAssumption DEF NotOpen
    <3> QED
      BY <2>3, <3>1 DEF Window
  <2>5. w.kind = "text" /\ w.text = writebuffer' /\ w.size = opened
    OBVIOUS
  <2> HIDE DEF w
  <2>6. /\ windows' \in Seq(Window) /\ Len(windows') = 3 /\ DOMAIN windows' = DOMAIN windows
        /\ windows'[3] = w /\ \A i \in DOMAIN windows : i # 3 => windows'[i] = windows[i]
    <3>1. windows' = [windows EXCEPT ![3] = w]
      BY <2>1, <2>2
    <3>2. windows' \in Seq(Window)
      <4>1. windows \in Seq(Window) /\ 3 \in DOMAIN windows
        BY <1>s, <2>2
      <4> QED
        BY <2>4, <3>1, <4>1, Replaced, Zenon
    <3>3. DOMAIN windows' = DOMAIN windows /\ windows'[3] = w
          /\ \A i \in DOMAIN windows : i # 3 => windows'[i] = windows[i]
      BY <2>2, <3>1
    <3>4. Len(windows') = 3
      BY <1>s, <2>2, <3>1
    <3> QED
      BY <3>2, <3>3, <3>4
  <2>7. Stacked'
    <3>1. \A i \in DOMAIN windows' : windows'[i].kind \in KindsAt(i)
      <4> SUFFICES ASSUME NEW i \in DOMAIN windows' PROVE windows'[i].kind \in KindsAt(i)
        OBVIOUS
      <4>1. CASE i = 3
        BY <2>5, <2>6, <4>1 DEF KindsAt
      <4>2. CASE i # 3
        BY <2>6, <4>2 DEF Stacked
      <4> QED
        BY <4>1, <4>2
    <3>2. windows'[1].kind = "Folder1"
      <4>1. 1 \in DOMAIN windows
        BY <1>s, <2>2
      <4> QED
        BY <2>2, <2>6, <4>1 DEF Stacked
    <3> QED
      BY <2>6, <3>1, <3>2 DEF Stacked
  <2>8. Top' = w
    <3>1. windows' # <<>>
      BY <2>6
    <3> QED
      BY <2>6, <3>1 DEF Top
  <2>9. PathStartsWithDay'
    <3> SUFFICES ASSUME NEW i \in DOMAIN windows', windows'[i].kind = "Folder2"
                 PROVE  path' # <<>> /\ path'[1] = windows'[i].day
      BY DEF PathStartsWithDay
    <3>1. i # 3
      BY <2>5, <2>6
    <3> QED
      BY <1>0, <2>1, <2>6, <3>1 DEF PathStartsWithDay
  <2>10. TextStartsWithFile'
    <3> SUFFICES ASSUME opened # NotOpen
                 PROVE  /\ path' = clicked' /\ Len(writebuffer') >= opened
                        /\ \A i \in 1 .. opened : writebuffer'[i] = clicked'
      BY <2>5, <2>8 DEF TextStartsWithFile, NotOpen
    <3>1. path = clicked
      BY <1>0, <2>1
    <3> QED
      BY <2>1, <2>3, <3>1
  <2>11. \A i \in DOMAIN windows' : windows'[i].kind = "Folder1" => windows'[i].entries \subseteq DOMAIN card'
    <3> SUFFICES ASSUME NEW i \in DOMAIN windows', windows'[i].kind = "Folder1"
                 PROVE  windows'[i].entries \subseteq DOMAIN card'
      OBVIOUS
    <3>1. i # 3
      BY <2>5, <2>6
    <3> QED
      BY <1>0, <2>1, <2>6, <3>1
  <2>12. CardOK'
    BY <1>0, <2>1 DEF CardOK
  <2> QED
    BY <1>0, <2>1, <2>3, <2>5, <2>7, <2>8, <2>9, <2>10, <2>11, <2>12 DEF FileInv, FileShown
<1>8. CASE Back
  <2>1. /\ windows # <<>> /\ windows' = Front(windows)
        /\ UNCHANGED <<card, path, writebuffer, opened, clicked>>
    BY <1>8 DEF Back
  <2>2. /\ Stacked' /\ Len(windows') = Len(windows) - 1
        /\ \A i \in DOMAIN windows' : i \in DOMAIN windows /\ windows'[i] = windows[i]
    BY <2>1, TakeOffTop
  <2>3. Top'.kind \notin {"opening", "text"}
    <3>1. (Stacked => Told)'
      BY TopTells, PTL
    <3>2. Told'
      BY <2>2, <3>1
    <3>3. Top'.kind \in {"opening", "text"} => Len(windows') = 3
      BY <3>2 DEF Told
    <3>4. Len(windows') # 3
      BY <1>s, <2>2
    <3> QED
      BY <3>3, <3>4
  <2>4. PathStartsWithDay'
    BY <1>0, <2>1, <2>2 DEF PathStartsWithDay
  <2>5. TextEnds' /\ TextStartsWithFile'
    BY <1>0, <2>1, <2>3 DEF TextEnds, TextStartsWithFile
  <2>6. \A i \in DOMAIN windows' : windows'[i].kind = "Folder1" => windows'[i].entries \subseteq DOMAIN card'
    BY <1>0, <2>1, <2>2
  <2>7. CardOK'
    BY <1>0, <2>1 DEF CardOK
  <2> QED
    BY <1>0, <2>1, <2>2, <2>3, <2>4, <2>5, <2>6, <2>7 DEF FileInv, FileShown
<1>9. ASSUME NEW item \in Items, OpenItem(item) PROVE Stacked' /\ FileInv'
  <2> DEFINE w == [kind |-> item]
  <2>1. windows' = <<w>> /\ UNCHANGED <<card, path, writebuffer, opened, clicked>>
    BY <1>9 DEF OpenItem
  <2>2. w \in Window /\ w.kind = item
    BY DEF Window
  <2> HIDE DEF w
  <2>3. Stacked' /\ Top' = w /\ windows'[1] = w /\ DOMAIN windows' = {1}
    BY <2>1, <2>2, PutFirst
  <2>4. item \notin {"Folder1", "Folder2", "opening", "text"}
    BY DEF Items
  <2>5. PathStartsWithDay' /\ TextEnds' /\ TextStartsWithFile'
    BY <1>0, <2>1, <2>2, <2>3, <2>4 DEF PathStartsWithDay, TextEnds, TextStartsWithFile
  <2>6. CardOK'
    BY <1>0, <2>1 DEF CardOK
  <2> QED
    BY <1>0, <2>1, <2>2, <2>3, <2>4, <2>5, <2>6 DEF FileInv, FileShown
<1> QED
  BY <1>2, <1>3, <1>4, <1>5, <1>6, <1>7, <1>8, <1>9
  DEF WindowsNext, FileWindows, TouchField, CloseKeyboard, Login, Quit, Answer, PressBack, ReleaseBack, winVars


-----------------------------------------------------------------------------
(* The tasks.                                                              *)

\* A clock or a gauge is on the screen exactly while its task runs, the flag of
\* the chart is up exactly while there is one that is not being left, and a
\* pointer is set exactly while its task runs.
TaskInv ==
    /\ task = running /\ running \subseteq Tasks
    /\ headers \in Nat
    /\ base = "main" => "header" \in running
    /\ "header" \in running => headers > 0
    /\ \A t \in {"clock", "gauge"} : t \in running <=> Shown(t)
    /\ chart_flag <=> Shown("chart") /\ ~pressed
    /\ Shown("chart") => "chart" \in running
    /\ pressed => windows # <<>> /\ Top.kind # "opening"

\* An item has no other window on top of it or under it.
LEMMA ItemsAlone ==
    ASSUME Stacked, NEW kind \in Items
    PROVE  /\ Shown(kind) <=> Top.kind = kind
           /\ Top.kind = kind => Len(windows) = 1 /\ windows # <<>>
<1>1. /\ windows \in Seq(Window) /\ Len(windows) \in 0 .. 3 /\ DOMAIN windows = 1 .. Len(windows)
      /\ windows = <<>> <=> Len(windows) = 0
  BY Stack
<1>2. /\ windows # <<>> => Top = windows[Len(windows)]
      /\ windows = <<>> => Top.kind = "main"
  BY DEF Top
<1>3. kind \notin {"Folder1", "Folder2", "opening", "text", "main"}
  BY DEF Items
<1>4. ASSUME NEW w \in DOMAIN windows, windows[w].kind = kind
      PROVE  w = 1 /\ Len(windows) = 1
  <2>1. w = 1
    <3>1. windows[w].kind \in KindsAt(w)
      BY DEF Stacked
    <3> QED
      BY <1>3, <1>4, <3>1 DEF KindsAt
  <2>2. ~(Len(windows) >= 2)
    BY <1>3, <1>4, <2>1 DEF Stacked
  <2>3. Len(windows) >= 1
    BY <1>1, <2>1
  <2> QED
    BY <1>1, <2>1, <2>2, <2>3
<1>5. ASSUME Shown(kind) PROVE Top.kind = kind
  <2>1. PICK w \in DOMAIN windows : windows[w].kind = kind
    BY <1>5 DEF Shown
  <2>2. w = 1 /\ Len(windows) = 1
    BY <1>4, <2>1
  <2>3. windows # <<>>
    BY <1>1, <2>2
  <2> QED
    BY <1>2, <2>1, <2>2, <2>3
<1>6. ASSUME Top.kind = kind PROVE Shown(kind) /\ Len(windows) = 1 /\ windows # <<>>
  <2>1. windows # <<>>
    BY <1>2, <1>3, <1>6
  <2>2. Len(windows) \in DOMAIN windows /\ windows[Len(windows)].kind = kind
    BY <1>1, <1>2, <1>6, <2>1
  <2> QED
    BY <1>4, <2>1, <2>2 DEF Shown
<1> QED
  BY <1>5, <1>6

LEMMA TaskInvStep ==
    ASSUME Stacked, Stacked', TaskInv, [WindowsNext]_winVars
    PROVE  TaskInv'
<1>0. /\ task = running /\ running \subseteq Tasks /\ headers \in Nat
      /\ base = "main" => "header" \in running
      /\ "header" \in running => headers > 0
      /\ \A t \in {"clock", "gauge"} : t \in running <=> Shown(t)
      /\ chart_flag <=> Shown("chart") /\ ~pressed
      /\ Shown("chart") => "chart" \in running
      /\ pressed => windows # <<>> /\ Top.kind # "opening"
  BY DEF TaskInv
<1>1. ASSUME UNCHANGED windows PROVE (\A k \in Items : Shown(k)' = Shown(k)) /\ Top' = Top
  BY <1>1 DEF Shown, Top
<1>i. "clock" \in Items /\ "gauge" \in Items /\ "chart" \in Items
  BY DEF Items
\* Nothing of it changes.
<1>2. CASE UNCHANGED <<windows, task, running, headers, base, chart_flag, pressed>>
  BY <1>0, <1>1, <1>2, <1>i DEF TaskInv
<1>3. CASE TouchField \/ CloseKeyboard \/ Quit \/ (Save /\ Unwindowed) \/ UNCHANGED winVars
  <2>1. UNCHANGED <<windows, task, running, headers, base, chart_flag, pressed>>
    BY <1>3 DEF TouchField, CloseKeyboard, Quit, Save, Unwindowed, winVars, vars, taskVars
  <2> QED
    BY <1>2, <2>1
<1>4. CASE Login
  <2>1. /\ base' = "main" /\ headers' = headers + 1 /\ UNCHANGED <<windows, chart_flag, pressed>>
        /\ task' = task \cup {"header"} /\ running' = running \cup ({"header"} \ task)
    BY <1>4 DEF Login, TaskCreate, vars
  <2>2. running' = running \cup {"header"} /\ task' = running'
    BY <1>0, <2>1
  <2>3. \A t \in {"clock", "gauge", "chart"} : t \in running' <=> t \in running
    BY <2>2
  <2>4. running' \subseteq Tasks /\ headers' \in Nat /\ headers' > 0
    BY <1>0, <2>1, <2>2 DEF Tasks
  <2> QED
    BY <1>0, <1>1, <1>i, <2>1, <2>2, <2>3, <2>4 DEF TaskInv
<1>5. CASE Answer
  <2>1. /\ base = "main" /\ UNCHANGED <<windows, task, running, headers, chart_flag, pressed>>
    BY <1>5 DEF Answer, OnMain, vars, taskVars
  <2>2. base' = "main" => "header" \in running'
    BY <1>0, <2>1
  <2> QED
    BY <1>0, <1>1, <1>i, <2>1, <2>2 DEF TaskInv
<1>6. ASSUME NEW item \in Items, OpenItem(item) PROVE TaskInv'
  <2> DEFINE w == [kind |-> item]
  <2>1. /\ windows = <<>> /\ base = "main" /\ ~pressed /\ windows' = <<w>>
        /\ task' = task \cup ({item} \cap Tasks) /\ running' = running \cup (({item} \cap Tasks) \ task)
        /\ chart_flag' = (chart_flag \/ item = "chart")
        /\ UNCHANGED <<base, pressed, headers>>
    BY <1>6 DEF OpenItem, OnMain, TaskCreate
  <2>2. w \in Window /\ w.kind = item
    BY DEF Window
  <2> HIDE DEF w
  <2>3. Top' = w /\ windows'[1] = w /\ DOMAIN windows' = {1}
    BY <2>1, <2>2, PutFirst
  <2>4. \A k \in Items : Shown(k)' <=> k = item
    BY <2>2, <2>3 DEF Shown
  <2>5. \A k \in Items : ~Shown(k)
    BY <2>1 DEF Shown
  <2>6. running' = running \cup ({item} \cap Tasks) /\ task' = running'
    BY <1>0, <2>1
  <2>7. running' \subseteq Tasks
    BY <1>0, <2>6
  <2>8. \A t \in {"clock", "gauge", "chart"} : t \in running' <=> t \in running \/ t = item
    BY <2>6 DEF Tasks
  <2>9. "header" \in running' <=> "header" \in running
    BY <2>6 DEF Items
  <2>10. \A t \in {"clock", "gauge"} : t \in running' <=> Shown(t)'
    BY <1>0, <1>i, <2>4, <2>5, <2>8
  <2>11. chart_flag' <=> Shown("chart")' /\ ~pressed'
    BY <1>0, <1>i, <2>1, <2>4, <2>5
  <2>12. Shown("chart")' => "chart" \in running'
    BY <1>i, <2>4, <2>8
  <2> QED
    BY <1>0, <2>1, <2>6, <2>7, <2>9, <2>10, <2>11, <2>12 DEF TaskInv
<1>7. CASE FileWindows
  <2>1. /\ ~pressed \/ Top.kind = "opening"
        /\ UNCHANGED <<task, running, headers, base, chart_flag, pressed>>
    BY <1>7 DEF FileWindows, OnMain, ReadFile, Unwindowed, taskVars
  <2>2. ~pressed
    BY <1>0, <2>1
  <2>3. ASSUME NEW k \in Items PROVE Shown(k)' <=> Shown(k)
    <3>0. k \notin {"Folder1", "Folder2", "opening", "text"}
      BY DEF Items
    <3>1. /\ windows \in Seq(Window) /\ Len(windows) \in 0 .. 3 /\ DOMAIN windows = 1 .. Len(windows)
      BY Stack
    <3>2. ASSUME NEW v, v.kind # k, windows' = Append(windows, v)
          PROVE  Shown(k)' <=> Shown(k)
      <4>1. /\ DOMAIN windows' = 1 .. Len(windows) + 1 /\ windows'[Len(windows) + 1] = v
            /\ \A i \in DOMAIN windows : windows'[i] = windows[i]
        BY <3>1, <3>2
      <4>2. \A i \in DOMAIN windows' : i \in DOMAIN windows \/ i = Len(windows) + 1
        BY <3>1, <4>1
      <4>3. \A i \in DOMAIN windows : i \in DOMAIN windows'
        BY <3>1, <4>1
      <4> QED
        BY <3>2, <4>1, <4>2, <4>3 DEF Shown
    <3>3. CASE OnMain /\ OpenBrowser
      <4> DEFINE v == [kind |-> "Folder1", entries |-> DOMAIN card]
      <4>1. windows = <<>> /\ windows' = <<v>> /\ v.kind = "Folder1"
        BY <3>3 DEF OpenBrowser
      <4> HIDE DEF v
      <4>2. DOMAIN windows' = {1} /\ windows'[1] = v /\ DOMAIN windows = {}
        BY <4>1
      <4> QED
        BY <3>0, <4>1, <4>2 DEF Shown
    <3>4. CASE ClickDay
      <4>1. PICK d : windows' = Append(windows, [kind |-> "Folder2", day |-> d, entries |-> DOMAIN card[d]])
        BY <3>4 DEF ClickDay
      <4> DEFINE v == [kind |-> "Folder2", day |-> d, entries |-> DOMAIN card[d]]
      <4>2. windows' = Append(windows, v) /\ v.kind = "Folder2"
        BY <4>1
      <4> HIDE DEF v
      <4> QED
        BY <3>0, <3>2, <4>2
    <3>5. CASE ClickFile
      <4>1. windows' = Append(windows, [kind |-> "opening"])
        BY <3>5 DEF ClickFile
      <4> DEFINE v == [kind |-> "opening"]
      <4>2. windows' = Append(windows, v) /\ v.kind = "opening"
        BY <4>1
      <4> HIDE DEF v
      <4> QED
        BY <3>0, <3>2, <4>2
    <3>6. CASE ReadFile
      <4> DEFINE v == [kind |-> "text", text |-> writebuffer', size |-> opened]
      <4>1. Top.kind = "opening" /\ windows' = [windows EXCEPT ![Len(windows)] = v] /\ v.kind = "text"
        BY <3>6 DEF ReadFile
      <4> HIDE DEF v
      <4>2. Len(windows) = 3 /\ windows # <<>> /\ windows[3].kind = "opening"
        <5>1. Len(windows) = 3
          BY <4>1, TopTells DEF Told
        <5>2. windows # <<>>
          BY <3>1, <5>1
        <5> QED
          BY <4>1, <5>1, <5>2 DEF Top
      <4>3. DOMAIN windows' = DOMAIN windows /\ \A i \in DOMAIN windows : windows'[i] = windows[i] \/ i = 3
        BY <4>1, <4>2
      <4>4. 3 \in DOMAIN windows /\ windows'[3] = v
        BY <3>1, <4>1, <4>2
      <4> QED
        BY <3>0, <4>1, <4>2, <4>3, <4>4 DEF Shown
    <3> QED
      BY <1>7, <3>3, <3>4, <3>5, <3>6 DEF FileWindows
  <2> QED
    BY <1>0, <1>i, <2>1, <2>2, <2>3 DEF TaskInv
<1>8. CASE PressBack
  <2>1. /\ windows # <<>> /\ Top.kind # "opening" /\ pressed' = TRUE /\ chart_flag' = FALSE
        /\ UNCHANGED <<windows, base, task, running, headers>>
    BY <1>8 DEF PressBack, Idle, vars
  <2> QED
    BY <1>0, <1>1, <1>i, <2>1 DEF TaskInv
<1>9. CASE ReleaseBack
  <2> DEFINE gone == {Top.kind} \cap {"gauge", "clock"} \cap task
  <2>1. /\ pressed' = FALSE /\ chart_flag' = FALSE /\ windows # <<>> /\ windows' = Front(windows)
        /\ UNCHANGED <<base, headers>>
        /\ task' = task \ gone /\ running' = running \ gone
    BY <1>9 DEF ReleaseBack, UserBack, Back
  <2>2. /\ Len(windows') = Len(windows) - 1 /\ Len(windows) \in Nat
        /\ \A i \in DOMAIN windows' : i \in DOMAIN windows /\ windows'[i] = windows[i]
    BY <2>1, TakeOffTop, Stack
  <2>3. ASSUME NEW k \in Items PROVE ~Shown(k)'
    <3>1. (Shown(k)') => Shown(k)
      BY <2>2 DEF Shown
    <3>2. Shown(k) => Len(windows) = 1
      BY ItemsAlone
    <3>3. Len(windows) = 1 => DOMAIN windows' = {}
      <4>1. (Stacked => Told)'
        BY TopTells, PTL
      <4>2. DOMAIN windows' = 1 .. Len(windows')
        BY <4>1 DEF Told
      <4> QED
        BY <2>2, <4>2
    <3> QED
      BY <3>1, <3>2, <3>3 DEF Shown
  <2>4. \A t \in {"clock", "gauge"} : t \in running => Top.kind = t
    BY <1>0, <1>i, ItemsAlone
  <2>5. \A t \in {"clock", "gauge"} : t \notin running'
    BY <1>0, <2>1, <2>4
  <2>6. "header" \in running' <=> "header" \in running
    BY <2>1
  <2>7. task' = running' /\ running' \subseteq Tasks
    BY <1>0, <2>1
  <2> QED
    BY <1>0, <1>i, <2>1, <2>3, <2>5, <2>6, <2>7 DEF TaskInv
<1> QED
  BY <1>3, <1>4, <1>5, <1>6, <1>7, <1>8, <1>9 DEF WindowsNext

\* Who makes or deletes a keyboard or a dialog sets its pointer.
LEMMA DialogsStep == DialogGuards /\ [WindowsNext]_winVars => DialogGuards'
<1> SUFFICES ASSUME DialogGuards, [WindowsNext]_winVars PROVE DialogGuards'
  OBVIOUS
<1>1. CASE TouchField
  BY <1>1 DEF TouchField, DialogGuards
<1>2. CASE CloseKeyboard
  BY <1>2 DEF CloseKeyboard, DialogGuards
<1>3. CASE Login
  BY <1>3 DEF Login, DialogGuards
<1>4. CASE Quit
  BY <1>4 DEF Quit, OnMain, DialogGuards
<1>5. CASE Answer
  BY <1>5 DEF Answer, OnMain, DialogGuards
<1>6. ASSUME UNCHANGED <<base, kb, kbShown, quit_mbox, quitShown>> PROVE DialogGuards'
  BY <1>6 DEF DialogGuards
<1>7. CASE (\E item \in Items : OpenItem(item)) \/ FileWindows \/ PressBack \/ ReleaseBack
           \/ (Save /\ Unwindowed) \/ UNCHANGED winVars
  <2>1. UNCHANGED <<base, kb, kbShown, quit_mbox, quitShown>>
    BY <1>7 DEF OpenItem, FileWindows, PressBack, ReleaseBack, Unwindowed, winVars, dialogVars
  <2> QED
    BY <1>6, <2>1
<1> QED
  BY <1>1, <1>2, <1>3, <1>4, <1>5, <1>7 DEF WindowsNext


-----------------------------------------------------------------------------
WInv == Stacked /\ FileInv /\ TaskInv /\ DialogGuards

LEMMA WInvInit == WindowsInit => WInv
<1> SUFFICES ASSUME WindowsInit PROVE WInv
  OBVIOUS
<1>1. /\ windows = <<>> /\ path = <<>> /\ writebuffer = <<>> /\ opened = NotOpen
      /\ card = [d \in {} |-> 0]
  BY DEF WindowsInit, Init
<1>2. /\ base = "login" /\ headers = 0 /\ kb = FALSE /\ kbShown = FALSE /\ quit_mbox = FALSE
      /\ quitShown = FALSE /\ task = {} /\ running = {} /\ chart_flag = FALSE /\ pressed = FALSE
  BY DEF WindowsInit
<1>3. Stacked /\ DOMAIN windows = {} /\ Top.kind = "main"
  BY <1>1 DEF Stacked, Top
<1>4. CardOK
  BY <1>1 DEF CardOK
<1>5. path \in Seq(Names) /\ writebuffer \in Texts /\ Len(writebuffer) = 0
  BY <1>1 DEF Texts
<1>6. TextEnds
  <2>1. BufferSize > 0
    BY BrowserAssumption
  <2> QED
    BY <1>5, <2>1 DEF TextEnds
<1>7. PathStartsWithDay /\ TextStartsWithFile
  BY <1>3 DEF PathStartsWithDay, TextStartsWithFile
<1>8. FileInv
  BY <1>1, <1>3, <1>4, <1>5, <1>6, <1>7 DEF FileInv, FileShown
<1>9. TaskInv /\ DialogGuards
  BY <1>2, <1>3 DEF TaskInv, DialogGuards, Shown
<1> QED
  BY <1>3, <1>8, <1>9 DEF WInv

LEMMA WInvStep == WInv /\ [WindowsNext]_winVars => WInv'
<1> SUFFICES ASSUME Stacked, FileInv, TaskInv, DialogGuards, [WindowsNext]_winVars PROVE WInv'
  BY DEF WInv
<1>1. Stacked' /\ FileInv'
  BY FileInvStep
<1>2. TaskInv'
  BY <1>1, TaskInvStep
<1>3. DialogGuards'
  BY DialogsStep
<1> QED
  BY <1>1, <1>2, <1>3 DEF WInv

\* Whatever the recorder writes while the user walks through folders and files of
\* any number, a text that could be read starts with the file clicked and ends
\* inside the buffer, if the buffer is longer than any file.
THEOREM WindowsFileShown == WindowsSpec => []FileShown
<1>1. WInv => FileShown
  BY DEF WInv, FileInv
<1> QED
  BY <1>1, WInvInit, WInvStep, PTL DEF WindowsSpec

\* Over any number of logins and windows, no task writes to a deleted object,
\* though only a flag and a few static pointers keep it from doing so.
THEOREM WindowsTasksTouchLiving == WindowsSpec => []TasksTouchLiving
<1>1. ASSUME WInv PROVE TasksTouchLiving
  <2> SUFFICES ASSUME NEW t \in Writing PROVE IF t = "header" THEN headers > 0 ELSE Shown(t)
    BY DEF TasksTouchLiving
  <2>1. t \in running /\ (t = "chart" => chart_flag)
    BY DEF Writing
  <2> QED
    BY <1>1, <2>1 DEF WInv, TaskInv, Tasks
<1> QED
  BY <1>1, WInvInit, WInvStep, PTL DEF WindowsSpec

\* Nor is a window ever on the screen with its task stopped: opened again after
\* any history of windows it is kept up to date.
THEOREM WindowsShownIsLive == WindowsSpec => []ShownIsLive
<1>1. ASSUME WInv PROVE ShownIsLive
  <2> SUFFICES ASSUME NEW t \in Tasks, Top.kind # "opening",
                      IF t = "header" THEN base = "main" ELSE Shown(t) /\ ~pressed
               PROVE  t \in Writing
    BY DEF ShownIsLive
  <2>1. t \in running /\ (t = "chart" => chart_flag)
    BY <1>1 DEF WInv, TaskInv, Tasks
  <2> QED
    BY <2>1 DEF Writing
<1> QED
  BY <1>1, WInvInit, WInvStep, PTL DEF WindowsSpec

\* The pointers to the keyboard, the dialog and the tasks say, after any number of
\* logins and windows, what there is: a pointer to a task is set exactly while
\* the task runs, that of the gauge or the clock exactly while its window is there.
THEOREM WindowsGuardsRight == WindowsSpec => []GuardsRight
<1>1. TaskInv => TaskGuards
  BY DEF TaskInv, TaskGuards
<1>2. WInv => GuardsRight
  BY <1>1 DEF WInv, GuardsRight
<1> QED
  BY <1>2, WInvInit, WInvStep, PTL DEF WindowsSpec
=============================================================================
