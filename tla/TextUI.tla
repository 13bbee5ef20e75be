------------------------------- MODULE TextUI -------------------------------
(***************************************************************************)
(* The text interface.  src/ui/fsview.c is the list of files it shows: the  *)
(* entries of the working directory, directories before files and each      *)
(* sorted, the selected entry and the one that is first on the screen.      *)
(* src/tui/textui.c: each key changes the list, the view or the search and  *)
(* notes what has to be drawn again, and when no more keys wait only that   *)
(* is drawn.  The screen is what was drawn: the rows of the list, its       *)
(* frame, the info box, the status bar and the title.                       *)
(***************************************************************************)
EXTENDS Integers, Sequences, SequencesExt, FiniteSetsExt

CONSTANTS
  Dirs,       (* the directories: sets of [name, type]; type is "dir",      *)
              (* "com" or "file"; a name is a sequence of characters, of    *)
              (* which 0 is the dot                                         *)
  Child,      (* Child[d][name] is the directory of that name in d          *)
  Above,      (* the directory above each, the root's being itself          *)
  Root,
  num_vis     (* FSVIEW_ROWS - 2                                            *)

ASSUME FsViewAssumption == num_vis \in Nat \ {0} /\ Root \in DOMAIN Dirs

VARIABLES
  cwd,        (* the process' working directory                             *)
  entries, cursel, fsv_scroll

fsVars == << cwd, entries, cursel, fsv_scroll >>

DotDot == [name |-> << 0, 0 >>, type |-> "dir"]
num_entries == Len(entries)

(* entcmp: strcasecmp *)
SortsBefore(e, f) ==
  \E k \in DOMAIN f.name :
    /\ k - 1 <= Len(e.name) /\ SubSeq(e.name, 1, k - 1) = SubSeq(f.name, 1, k - 1)
    /\ k > Len(e.name) \/ e.name[k] < f.name[k]

should_ignore(e) == e.name[1] = 0
Listing(d) ==
  LET shown == { e \in Dirs[d] : ~should_ignore(e) }
      dirs == { e \in shown : e.type = "dir" }
  IN  SetToSortSeq(dirs \union {DotDot}, SortsBefore) \o SetToSortSeq(shown \ dirs, SortsBefore)

(* load_cur_dir, in the directory that is current by then.  "memory" says   *)
(* where malloc gives up: never, at the entries, or at one of the names;    *)
(* nobody looks at its result.                                              *)
Memory == {"enough", "no entries", "no name"}
load_cur_dir(memory) ==
  CASE memory = "enough"     -> entries' = Listing(cwd') /\ cursel' = 0 /\ fsv_scroll' = 0
    [] memory = "no entries" -> UNCHANGED << entries, cursel, fsv_scroll >>
    [] memory = "no name"    -> entries' = << >> /\ UNCHANGED << cursel, fsv_scroll >>

FsInit == cwd = Root /\ entries = Listing(Root) /\ cursel = 0 /\ fsv_scroll = 0

(* fsv_keep_vis *)
fsv_keep_vis(idx) ==
  IF idx < fsv_scroll THEN idx
  ELSE IF idx >= fsv_scroll + num_vis THEN idx - num_vis + 1 ELSE fsv_scroll

Select(idx) == cursel' = idx /\ fsv_scroll' = fsv_keep_vis(idx)

fsv_sel(s) == IF s < 0 \/ s >= num_entries THEN cursel ELSE s
fsv_sel_prev == IF cursel <= 0 THEN cursel ELSE cursel - 1
fsv_sel_next == IF cursel >= num_entries - 1 THEN cursel ELSE cursel + 1
fsv_sel_first == IF cursel <= 0 THEN cursel ELSE 0
fsv_sel_last == IF cursel >= num_entries - 1 THEN cursel ELSE num_entries - 1

(* strcasestr *)
Matches(e, str) ==
  \E k \in 0 .. Len(e.name) - Len(str) : SubSeq(e.name, k + 1, k + Len(str)) = str
Matching(str) == { i \in 0 .. num_entries - 1 : Matches(entries[i + 1], str) }
fsv_sel_match(str) ==
  IF Matching(str) = {} THEN cursel
  ELSE CHOOSE i \in Matching(str) : \A j \in Matching(str) : i <= j

fsv_updir(memory) == cwd' = Above[cwd] /\ load_cur_dir(memory)

(* the directory that is selected; its name is looked up in cwd *)
Selected == entries[cursel + 1]
EnterDir(memory) ==
  /\ cwd' = IF Selected = DotDot THEN Above[cwd]
            ELSE IF Selected.name \in DOMAIN Child[cwd] THEN Child[cwd][Selected.name] ELSE cwd
  /\ load_cur_dir(memory)

(* The entry that the selection bar is on exists and is on the screen *)
SelectionVisible ==
  /\ cursel \in 0 .. num_entries - 1
  /\ fsv_scroll <= cursel /\ cursel < fsv_scroll + num_vis
ListsCwd == entries = Listing(cwd)

-----------------------------------------------------------------------------
CONSTANTS Letters, MAX_SEARCH_LEN

VARIABLES
  view,         (* "off", or what draw and keypress point to: "fs", "tx"    *)
  dirty, dirty_start, dirty_end, show_help,
  search,
  top_title,    (* the file that the title names, or None                   *)
  viewer_dirty, (* the viewer has not drawn itself yet                      *)
  screen,
  drawn         (* history: nothing happened since the last draw            *)

uiVars == << fsVars, view, dirty, dirty_start, dirty_end, show_help, search, top_title,
             viewer_dirty, screen, drawn >>

None == << >>
Undefined == << -1 >>             (* not drawn *)
INT_MAX == 1000
DIRTY_ALL == {"bg", "title", "status", "infobox"}
Rows == 1 .. num_vis
Undrawn == [entry |-> None, bar |-> FALSE, junk |-> TRUE]
BlankScreen == [rows |-> [i \in Rows |-> Undrawn], frame |-> "none", info |-> FALSE,
           status |-> Undefined, title |-> Undefined]

UiInit ==
  /\ FsInit
  /\ view = "off" /\ dirty = {} /\ dirty_start = -1 /\ dirty_end = -1 /\ show_help = TRUE
  /\ search = << >> /\ top_title = None /\ viewer_dirty = FALSE
  /\ screen = BlankScreen /\ drawn = FALSE

(* init_scr: the screen is cleared by con_clear *)
InitScr ==
  /\ search' = << >>
  /\ dirty_start' = -1 /\ dirty_end' = -1 /\ dirty' = DIRTY_ALL
  /\ view' = "fs"
  /\ screen' = BlankScreen

textui ==
  /\ view = "off"
  /\ fsv_scroll' = fsv_keep_vis(cursel) /\ UNCHANGED << cwd, entries, cursel >>
  /\ InitScr
  /\ drawn' = FALSE
  /\ UNCHANGED << show_help, top_title, viewer_dirty >>

-----------------------------------------------------------------------------
(* invalidate, of everything and of single entries *)
InvalidateAll == dirty_start' = 0 /\ dirty_end' = Len(entries') - 1
BugInvalidateLast(idxs) ==
  /\ dirty_start' = Min(idxs) /\ dirty_end' = Max(idxs)
InvalidateEntries(idxs) ==
  IF dirty_start = -1
  THEN dirty_start' = Min(idxs) /\ dirty_end' = Max(idxs)
  ELSE dirty_start' = Min(idxs \union {dirty_start}) /\ dirty_end' = Max(idxs \union {dirty_end})
INVALIDATE ==
  IF fsv_scroll' # fsv_scroll THEN InvalidateAll ELSE InvalidateEntries({cursel, cursel'})
NothingInvalid == UNCHANGED << dirty_start, dirty_end >>

cancel_search ==
  /\ search' = << >>
  /\ dirty' = IF search # << >> THEN dirty \union {"status"} ELSE dirty

List == UNCHANGED << cwd, entries >>
Rest == UNCHANGED << view, show_help, top_title, viewer_dirty, screen >>

(* fsv_sel_next and its like, which say whether they changed anything *)
Move(to) ==
  /\ List /\ Select(to)
  /\ IF to # cursel THEN INVALIDATE ELSE NothingInvalid
  /\ cancel_search /\ Rest

(* PGDN and PGUP *)
Page(to) ==
  /\ List
  /\ cursel' = fsv_sel(to) /\ fsv_scroll' = cursel'
  /\ INVALIDATE
  /\ cancel_search /\ Rest
PageTarget(key) ==
  IF key = "PGDN" THEN IF cursel + num_vis >= num_entries THEN num_entries - 1 ELSE cursel + num_vis
  ELSE IF cursel - num_vis < 0 THEN 0 ELSE cursel - num_vis

Backspace(memory) ==
  IF search # << >>
  THEN /\ search' = Front(search)
       /\ dirty' = dirty \union {"status"}
       /\ UNCHANGED fsVars /\ NothingInvalid /\ Rest
  ELSE /\ fsv_updir(memory)
       /\ InvalidateAll
       /\ cancel_search /\ Rest

(* openfile: the viewer; it may have no memory *)
View(ok) ==
  IF ok THEN view' = "tx" /\ top_title' = Selected.name /\ viewer_dirty' = TRUE
             /\ dirty' = dirty \union {"title"} \union (IF search # << >> THEN {"status"} ELSE {})
        ELSE UNCHANGED << view, top_title, viewer_dirty >>

(* openfile of a program: it has the screen while it runs, and the list is  *)
(* what it was                                                              *)
Run(ok) ==
  IF ok THEN /\ view' = "fs" /\ dirty' = DIRTY_ALL
             /\ screen' = BlankScreen /\ UNCHANGED << top_title, viewer_dirty >>
        ELSE UNCHANGED << view, top_title, viewer_dirty, screen >>

Activate(ok, memory) ==
  CASE Selected.type = "dir"  -> EnterDir(memory) /\ InvalidateAll /\ cancel_search /\ Rest
    [] Selected.type = "com"  -> /\ UNCHANGED fsVars /\ Run(ok) /\ (ok \/ cancel_search)
                                 /\ search' = << >> /\ InvalidateAll /\ UNCHANGED show_help
    [] Selected.type = "file" -> /\ UNCHANGED fsVars /\ View(ok) /\ (ok \/ cancel_search)
                                 /\ search' = << >> /\ InvalidateAll /\ UNCHANGED << show_help, screen >>

(* F5 views programs too, and does nothing if that fails *)
F5(ok) ==
  /\ Selected.type # "dir" /\ ok
  /\ UNCHANGED fsVars /\ View(TRUE) /\ search' = << >> /\ InvalidateAll
  /\ UNCHANGED << show_help, screen >>

F1 ==
  /\ show_help' = ~show_help /\ dirty' = dirty \union {"infobox", "bg"}
  /\ UNCHANGED << fsVars, search, view, top_title, viewer_dirty, screen >> /\ NothingInvalid

Type(c) ==
  /\ Len(search) < MAX_SEARCH_LEN
  /\ search' = Append(search, c) /\ dirty' = dirty \union {"status"}
  /\ List /\ Select(fsv_sel_match(search'))
  /\ IF Matching(search') # {} THEN INVALIDATE ELSE NothingInvalid
  /\ Rest

Escape == cancel_search /\ UNCHANGED fsVars /\ NothingInvalid /\ Rest

fsview_keypress(memory) ==
  \/ Move(fsv_sel_next) \/ Move(fsv_sel_prev) \/ Move(fsv_sel_first) \/ Move(fsv_sel_last)
  \/ Page(PageTarget("PGDN")) \/ Page(PageTarget("PGUP"))
  \/ Backspace(memory)
  \/ \E ok \in BOOLEAN : Activate(ok, memory) \/ F5(ok)
  \/ F1 \/ Escape
  \/ \E c \in Letters : Type(c)

(* Escape in the viewer; its other keys are TxView's *)
CloseViewer ==
  /\ view' = "fs" /\ dirty' = DIRTY_ALL /\ top_title' = None
  /\ UNCHANGED << fsVars, show_help, search, viewer_dirty, screen >> /\ NothingInvalid

(* F8 *)
Quit ==
  /\ view' = "off"
  /\ UNCHANGED << fsVars, dirty, show_help, search, top_title, viewer_dirty, screen >> /\ NothingInvalid

Key(memory) ==
  /\ \/ view = "fs" /\ fsview_keypress(memory)
     \/ view = "tx" /\ CloseViewer
     \/ view # "off" /\ Quit
  /\ drawn' = FALSE

-----------------------------------------------------------------------------
RowOf(idx) ==
  [entry |-> IF idx < num_entries THEN entries[idx + 1].name ELSE None,
   bar |-> idx = cursel, junk |-> FALSE]

(* draw_dirview onto a screen s *)
DrawDir(s, first, last) ==
  LET all == first = -1 \/ (first <= 0 /\ last >= num_entries - 1)
      shows(idx) == all \/ (first <= idx /\ idx <= last)
  IN  [s EXCEPT !.rows = [i \in Rows |-> IF shows(fsv_scroll + i - 1) THEN RowOf(fsv_scroll + i - 1) ELSE @[i]],
                !.frame = IF all THEN cwd ELSE @]

fsview_draw ==
  LET bg     == "bg" \in dirty
      what   == IF bg THEN DIRTY_ALL ELSE dirty
      blank  == IF bg THEN BlankScreen ELSE screen
      info   == [blank EXCEPT !.info = @ \/ (show_help /\ "infobox" \in what)]
      list   == IF bg THEN DrawDir(info, 0, INT_MAX)
                ELSE IF dirty_start # -1 THEN DrawDir(info, dirty_start, dirty_end) ELSE info
      status == [list EXCEPT !.status = IF "status" \in what THEN search ELSE @]
      title  == [status EXCEPT !.title = IF "title" \in what THEN top_title ELSE @]
  IN  /\ screen' = title
      /\ dirty' = {}
      /\ dirty_start' = -1 /\ dirty_end' = -1
      /\ UNCHANGED viewer_dirty

(* draw_text and draw_hex fill every row below the title *)
DrawViewer ==
  LET text  == IF viewer_dirty THEN [BlankScreen EXCEPT !.title = screen.title] ELSE screen
      title == [text EXCEPT !.title = IF "title" \in dirty THEN top_title ELSE @]
  IN  /\ screen' = title
      /\ dirty' = dirty \ {"title"}
      /\ viewer_dirty' = FALSE
      /\ UNCHANGED << dirty_start, dirty_end >>

Draw ==
  /\ view # "off" /\ ~drawn
  /\ IF view = "fs" THEN fsview_draw ELSE DrawViewer
  /\ drawn' = TRUE
  /\ UNCHANGED << fsVars, view, show_help, search, top_title >>

UiNext == textui \/ Key("enough") \/ Draw
UiShort == textui \/ (\E m \in Memory : Key(m)) \/ Draw


-----------------------------------------------------------------------------
UiTypeOK ==
  /\ view \in {"off", "fs", "tx"} /\ dirty \subseteq DIRTY_ALL
  /\ dirty_start >= -1 /\ dirty_end >= -1 /\ Len(search) <= MAX_SEARCH_LEN
  /\ drawn \in BOOLEAN /\ show_help \in BOOLEAN

(* After every draw the screen shows the list as it is, whatever keys came  *)
(* since the last one and although only the entries they touched are drawn  *)
(* again: the rows from the scroll position on, one of them with the bar,   *)
(* the directory in the frame, the info box or not, and the search.         *)
ScreenTrue ==
  /\ UiTypeOK
  /\ SelectionVisible /\ ListsCwd
  /\ drawn /\ view = "fs" =>
       /\ \A i \in Rows : screen.rows[i] = RowOf(fsv_scroll + i - 1)
       /\ screen.frame = cwd /\ screen.info = show_help /\ screen.status = search

(* The title names the file in the viewer, and no file without one *)
TitleTrue == drawn => screen.title = top_title /\ (view = "fs" => top_title = None)
=============================================================================
