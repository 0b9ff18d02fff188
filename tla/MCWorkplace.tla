----------------------------- MODULE MCWorkplace -----------------------------
(***************************************************************************)
(* The services of everyday work side by side: a behaviour turns to one of *)
(* them, the others rest in an initial state.                              *)
(***************************************************************************)
EXTENDS Attendance, RequestForms, Notices, Messages, Announcements, Performance, Tasks,
        TLC

CONSTANTS p1, f1, f2, f3, r1, s1, s2, c1, c2, c3, a1

VARIABLE focus   \* the service a behaviour turns to

workplaceVars ==
  <<focus, attVars, formVars, noticeVars, messageVars, announcementVars, perfVars,
    taskListVars>>

-----------------------------------------------------------------------------
(* Attendance                                                              *)

AttMode(serial, ops, people, scans) ==
  [serial |-> serial, ops |-> ops, staff |-> people, scans |-> scans]
MCAttModes ==
  {AttMode(TRUE, {"scans"}, {p1}, 3), AttMode(TRUE, {"scans", "cards", "activation"}, {}, 1),
   AttMode(TRUE, {"scans", "reports"}, {p1}, 2),
   AttMode(FALSE, {"scans"}, {p1}, 2), AttMode(FALSE, {"cards", "reports"}, People, 0)}

(* Request forms                                                           *)

FormMode(serial, ops, leave, form, edited, columns, types, answers) ==
  [serial |-> serial, ops |-> ops, leave |-> leave, form |-> form, edited |-> edited,
   columns |-> columns, types |-> types, answers |-> answers]
Kind(k) == [kind |-> k]
Day(d) == [kind |-> "day", day |-> d]
Moment(d) == [kind |-> "moment", day |-> d]
Option(o) == [kind |-> "option", option |-> o]
LeaveForm ==
  (f1 :> Definition(StartCode, "date", TRUE, None, TRUE))
  @@ (f2 :> Definition(EndCode, "date", FALSE, Day(1), TRUE))
  @@ (f3 :> Definition(OptionCode, "select", TRUE, None, TRUE))
PlainForm ==
  (f1 :> Definition("other", "datetime", TRUE, Moment(1), TRUE))
  @@ (f2 :> Definition(OptionCode, "text", TRUE, None, TRUE))
  @@ (f3 :> None)
Anything == {None, Kind("blank"), Kind("word"), Kind("number"), Kind("flag"), Day(1), Moment(1)}
LeaveAnswers == {Day(0), Day(1), Day(2), Option("paid_leave"), Option("ctt")}
MCFormModes ==
  {FormMode(TRUE, {"define"}, TRUE, [LeaveForm EXCEPT ![f1] = None, ![f3] = None], {f1},
            {"code", "type", "required"}, FieldTypes, {None, Kind("blank"), Day(1), Kind("number")}),
   FormMode(TRUE, {"submit"}, FALSE, PlainForm, {}, {}, {}, Anything),
   FormMode(TRUE, {"submit", "rename", "balance"}, TRUE, LeaveForm, {}, {}, {}, LeaveAnswers),
   FormMode(FALSE, {"define", "submit"}, TRUE,
            [LeaveForm EXCEPT ![f1].code = "other", ![f2].default = Day(2),
                              ![f3].default = Option("paid_leave")],
            {f1}, {"code", "type"}, {"date", "text"}, {Day(2), Kind("word")})}

(* Notifications                                                           *)

MCOwnerOf == [s \in {s1, s2} |-> r1]
MCNoticeModes ==
  {[serial |-> FALSE, ops |-> {"sockets"}], [serial |-> TRUE, ops |-> {"reading"}]}

(* Messages and announcements                                              *)

MessageMode(serial, ops, rights, ranks, changing, last, size, flags) ==
  [serial |-> serial, ops |-> ops, rights |-> rights, rank |-> ranks, changing |-> changing,
   last |-> last, size |-> size, flags |-> flags]
Replying == (c1 :> {"send_same_or_down"}) @@ (c2 :> {"reply"}) @@ (c3 :> {"reply"})
MCMessageModes ==
  {MessageMode(TRUE, {"send", "reply"}, Replying, [c \in Correspondents |-> 2], {}, 3, 1, {TRUE}),
   MessageMode(FALSE, {"send", "reply", "breakoff"}, Replying, (c1 :> 2) @@ (c2 :> 1) @@ (c3 :> 3),
               {}, 2, 2, {TRUE}),
   MessageMode(TRUE, {"send", "read"}, (c1 :> {"send_all"}) @@ (c2 :> {"reply"}) @@ (c3 :> {}),
               (c1 :> 2) @@ (c2 :> 1) @@ (c3 :> 1), {}, 2, 2, {TRUE}),
   MessageMode(TRUE, {"rights", "ranks", "activation"}, [c \in Correspondents |-> {"send"}],
               (c1 :> 2) @@ (c2 :> 1) @@ (c3 :> None), {c1}, 0, 1, {})}
AnnouncementMode(serial, ops, there, edited) ==
  [serial |-> serial, ops |-> ops, there |-> there, edited |-> edited]
MCAnnouncementModes ==
  {AnnouncementMode(TRUE, {"schedule", "seen"}, {}, {a1}), AnnouncementMode(FALSE, {"seen"}, {a1}, {}),
   AnnouncementMode(FALSE, {"files"}, {a1}, {}), AnnouncementMode(TRUE, {"files", "failures"}, {a1}, {})}

(* Performance                                                             *)

MCPerfModes ==
  {[serial |-> TRUE, ops |-> PerfServices], [serial |-> FALSE, ops |-> {"objectives", "results"}]}

-----------------------------------------------------------------------------

Services ==
  {"attendance", "forms", "notices", "messages", "announcements", "performance", "tasks"}

(* A service a behaviour does not turn to is in one initial state.         *)
Resting(service, setting, settings) == focus = service \/ setting = CHOOSE s \in settings : TRUE

WorkplaceInit ==
  /\ focus \in Services
  /\ AttInit
     /\ Resting("attendance", attMode, AttModes)
  /\ FormInit
     /\ Resting("forms", formMode, FormModes)
  /\ NoticeInit
     /\ Resting("notices", noticeMode, NoticeModes)
  /\ MessageInit
     /\ Resting("messages", messageMode, MessageModes)
  /\ AnnouncementInit
     /\ Resting("announcements", announcementMode, AnnouncementModes)
  /\ PerfInit
     /\ Resting("performance", perfMode, PerfModes)
     /\ Resting("performance", crew, {[c \in Crews |-> [leader |-> l, active |-> TRUE]] : l \in Leads})
  /\ TaskInit

(* A step of the service in focus; the others keep their variables.        *)
Turn(service, step, others) == focus = service /\ step /\ UNCHANGED others

WorkplaceNext ==
  /\ UNCHANGED focus
  /\ \/ Turn("attendance", AttNext,
             <<formVars, noticeVars, messageVars, announcementVars, perfVars,
               taskListVars>>)
     \/ Turn("forms", FormNext,
             <<attVars, noticeVars, messageVars, announcementVars, perfVars,
               taskListVars>>)
     \/ Turn("notices", NoticeNext,
             <<attVars, formVars, messageVars, announcementVars, perfVars, taskListVars>>)
     \/ Turn("messages", MessageNext,
             <<attVars, formVars, noticeVars, announcementVars, perfVars, taskListVars>>)
     \/ Turn("announcements", AnnouncementNext,
             <<attVars, formVars, noticeVars, messageVars, perfVars, taskListVars>>)
     \/ Turn("performance", PerfNext,
             <<attVars, formVars, noticeVars, messageVars, announcementVars,
               taskListVars>>)
     \/ Turn("tasks", TaskNext,
             <<attVars, formVars, noticeVars, messageVars, announcementVars, perfVars>>)

WorkplaceSpec == WorkplaceInit /\ [][WorkplaceNext]_workplaceVars /\ NoticeFairness

=============================================================================
