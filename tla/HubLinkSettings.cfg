\* A Router without the agent: two outages, settings saved twice, one fault.
CONSTANTS
  Agents = {"none"}
  MaxOutages = 2
  MaxSaves = 2
  MaxFaults = 1
  MaxInbox = 1
SPECIFICATION FairSpec
PROPERTIES SettingsArrive ReadingOfThisLink
