\* One process is lost once; every worker is fair.
CONSTANTS
  link = link
  notice = notice
  wait = wait
  Actions = {link, wait}
  Links = {link}
  Waits = {wait}
  Notices = {notice}
  NoticeOf <- MCNoticeOf
  Instances = {i1}
  Schedulers = {}
  BatchSize = 1
  MaxFaults = 1
  None = None
SPECIFICATION FairSpec
CHECK_DEADLOCK FALSE
PROPERTIES InterruptedIsSettled
