\* Two tasks of a spider, an outage, a death and two stops.
CONSTANTS
  t1 = t1
  t2 = t2
  s1 = s1
  Free = Free
  Tasks = {t1, t2}
  Spiders = {s1}
  SlowCrawls = FALSE
  MaxOutages = 1
  MaxDeaths = 1
  MaxStops = 2
SPECIFICATION FairSpec
INVARIANTS
  OneCrawlPerSpider
PROPERTIES
  StartupSparesLive
  
  
  LocksAreFreed
CHECK_DEADLOCK FALSE
