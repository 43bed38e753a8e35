\* A Router with the agent and a Coordinator, one outage, and one fault: an
\* agent that dies or a lost connection of Home Assistant to the broker.
CONSTANTS
  Agents = {"down"}
  MaxOutages = 1
  MaxSaves = 0
  MaxFaults = 1
  MaxInbox = 1
SPECIFICATION FairSpec
PROPERTY LinkFollowsHub
