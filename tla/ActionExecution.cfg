\* A payment link with its notice and a WAIT action, two workers, one WAIT
\* scheduler, one fault anywhere; a query returns one row at a time.
CONSTANTS
  link = link
  notice = notice
  wait = wait
  Actions = {link, wait}
  Links = {link}
  Waits = {wait}
  Notices = {notice}
  NoticeOf <- MCNoticeOf
  Instances = {i1, i2}
  Schedulers = {s1}
  BatchSize = 1
  MaxFaults = 1
  None = None
SPECIFICATION FairSpec
CHECK_DEADLOCK FALSE
INVARIANTS TypeOK ExclusiveExecution EffectAtMostOnce StatusTellsEffect
  NoticeTwiceAtMost ApprovedIsUnlocked ResumedAfterWait
PROPERTIES KeepsPromise FailedIsFinal ApprovedIsSettled
