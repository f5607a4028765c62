\* The notice of a payment link, seen by two workers; no faults.
CONSTANTS
  link = link
  notice = notice
  wait = wait
  Actions = {link, wait}
  Links = {link}
  Waits = {wait}
  Notices = {notice}
  NoticeOf <- MCNoticeOf
  Instances = {i1, i2}
  Schedulers = {s1}
  BatchSize = 1
  MaxFaults = 0
  None = None
SYMMETRY Symmetry
SPECIFICATION Spec
CHECK_DEADLOCK FALSE
INVARIANTS NoticeSentOnce
